---- MODULE Spec2Model ----
(***************************************************************************)
(* Build-stage orchestration engine of ignis: the stage model, the         *)
(* StageDependencyGraph (Kahn layering), the StageRunner that walks the     *)
(* layers with fail-fast skips, and the step execution loop.                *)
(***************************************************************************)
EXTENDS Integers, Sequences, FiniteSets, TLC

(***************************************************************************)
(* Bounds of the model.                                                     *)
(***************************************************************************)
\* longest request (with repetitions, any order) handed to from_stages
MaxRequestLen == 3
\* number of manual add_stage / add_dependency calls on one graph
MaxGraphOps == 4
\* largest graph get_dependencies is called on: the manual calls that built
\* it, or the length of the request it was built from
MaxQueriedOps == 2
\* number of get_dependencies calls between two changes of the graph
MaxQueries == 2

(***************************************************************************)
(* Stage model (stage.rs).                                                  *)
(***************************************************************************)
Stage ==
    {"PreValidation", "Configure", "Build", "Install", "Clean", "PostBuild", "Test", "Exec"}

\* Stage::all(): the variants in declaration order
AllStages ==
    <<"PreValidation", "Configure", "Build", "Install", "Clean", "PostBuild", "Test", "Exec">>

\* Stage::metadata().can_run_concurrent
can_run_concurrent(s) ==
    CASE s = "PreValidation" -> FALSE
      [] s = "Configure" -> FALSE
      [] s = "Build" -> FALSE
      [] s = "Install" -> TRUE
      [] s = "Clean" -> FALSE
      [] s = "PostBuild" -> TRUE
      [] s = "Test" -> TRUE
      [] s = "Exec" -> FALSE

\* a faulty table: PreValidation waits for Build
default_dependencies_Cyclic(s) ==
    CASE s = "PreValidation" -> <<"Build">>
      [] s = "Configure" -> <<"PreValidation">>
      [] s = "Build" -> <<"Configure">>
      [] s = "Install" -> <<"Build">>
      [] s = "PostBuild" -> <<"Build">>
      [] s = "Test" -> <<"Build">>
      [] s = "Exec" -> <<"Build", "Install">>
      [] s = "Clean" -> <<>>

\* Stage::default_dependencies()
default_dependencies(s) ==
    CASE s = "PreValidation" -> <<>>
      [] s = "Configure" -> <<"PreValidation">>
      [] s = "Build" -> <<"Configure">>
      [] s = "Install" -> <<"Build">>
      [] s = "PostBuild" -> <<"Build">>
      [] s = "Test" -> <<"Build">>
      [] s = "Exec" -> <<"Build", "Install">>
      [] s = "Clean" -> <<>>

(***************************************************************************)
(* Helpers on sequences and maps.                                           *)
(***************************************************************************)
Range(q) == {q[i] : i \in 1..Len(q)}

Contains(q, x) == \E i \in 1..Len(q) : q[i] = x

\* all orderings of a finite set (the iteration orders of a HashMap / HashSet)
Orderings(S) ==
    {q \in [1..Cardinality(S) -> S] : \A i, j \in 1..Cardinality(S) : i # j => q[i] # q[j]}

RECURSIVE SeqsUpTo(_, _)
SeqsUpTo(S, n) ==
    IF n = 0 THEN {<<>>}
    ELSE LET shorter == SeqsUpTo(S, n - 1)
         IN  shorter \cup {Append(q, x) : q \in {r \in shorter : Len(r) = n - 1}, x \in S}

\* HashMap::insert
MapPut(m, k, v) == [x \in DOMAIN m \cup {k} |-> IF x = k THEN v ELSE m[x]]

\* HashMap::entry(k).or_insert(v)
MapOrInsert(m, k, v) == IF k \in DOMAIN m THEN m ELSE MapPut(m, k, v)

EmptyMap == [x \in {} |-> 0]

\* e, with x evaluated first: the loops below hand their accumulator on
\* evaluated, as the code does, not as a pending expression
Strict(x, e) == IF x = x THEN e ELSE e

(***************************************************************************)
(* StageDependencyGraph (dependency_graph.rs).                              *)
(***************************************************************************)
\* StageDependencyGraph::new
NewGraph == [adjacency |-> EmptyMap, in_degree |-> EmptyMap, stages |-> {}]

\* a faulty add_stage: the entries are inserted, replacing what was there
add_stage_Reset(g, s) ==
    [adjacency |-> MapPut(g.adjacency, s, <<>>),
     in_degree |-> MapPut(g.in_degree, s, 0),
     stages    |-> g.stages \cup {s}]

\* StageDependencyGraph::add_stage
add_stage(g, s) ==
    [adjacency |-> MapOrInsert(g.adjacency, s, <<>>),
     in_degree |-> MapOrInsert(g.in_degree, s, 0),
     stages    |-> g.stages \cup {s}]

\* a faulty add_dependency: the edge is entered from the dependent stage to
\* its dependency
add_dependency_Reversed(g, from, to) ==
    LET g2 == add_stage(add_stage(g, from), to)
    IN  [adjacency |-> MapPut(g2.adjacency, to, Append(g2.adjacency[to], from)),
         in_degree |-> MapPut(g2.in_degree, from, g2.in_degree[from] + 1),
         stages    |-> g2.stages]

\* a faulty add_dependency: the in-degree counts an edge once, the adjacency
\* list takes it every time
add_dependency_CountsOnce(g, from, to) ==
    LET g2 == add_stage(add_stage(g, from), to)
    IN  [adjacency |-> MapPut(g2.adjacency, from, Append(g2.adjacency[from], to)),
         in_degree |-> IF Contains(g2.adjacency[from], to) THEN g2.in_degree
                       ELSE MapPut(g2.in_degree, to, g2.in_degree[to] + 1),
         stages    |-> g2.stages]

\* StageDependencyGraph::add_dependency
add_dependency(g, from, to) ==
    LET g2 == add_stage(add_stage(g, from), to)
    IN  [adjacency |-> MapPut(g2.adjacency, from, Append(g2.adjacency[from], to)),
         in_degree |-> MapPut(g2.in_degree, to, g2.in_degree[to] + 1),
         stages    |-> g2.stages]

\* a faulty get_dependencies: one push for every edge found
RECURSIVE get_dependencies_PerEdge(_, _, _)
get_dependencies_PerEdge(g, order, stage) ==
    IF order = <<>> THEN <<>>
    ELSE LET from_stage == Head(order)
             found == SelectSeq(g.adjacency[from_stage], LAMBDA to : to = stage)
         IN  [i \in 1..Len(found) |-> from_stage]
                 \o get_dependencies_PerEdge(g, Tail(order), stage)

\* StageDependencyGraph::get_dependencies; order is the order in which the
\* loop meets the keys of the adjacency HashMap
get_dependencies(g, order, stage) ==
    SelectSeq(order, LAMBDA from_stage : Contains(g.adjacency[from_stage], stage))

\* from_stages, first loop: register every requested stage
RECURSIVE AddAllStages(_, _, _)
AddAllStages(g, req, i) ==
    IF i > Len(req) THEN g
    ELSE LET g2 == add_stage(g, req[i])
         IN  Strict(g2, AddAllStages(g2, req, i + 1))

\* a faulty inner loop: a dependency is wired whether requested or not
RECURSIVE AddDepsOf_KeepAbsent(_, _, _, _)
AddDepsOf_KeepAbsent(g, req, s, j) ==
    LET deps == default_dependencies(s)
    IN  IF j > Len(deps) THEN g
        ELSE LET g2 == add_dependency(g, deps[j], s)
             IN  Strict(g2, AddDepsOf_KeepAbsent(g2, req, s, j + 1))

\* from_stages, inner loop: the dependencies of one stage, kept when requested
RECURSIVE AddDepsOf(_, _, _, _)
AddDepsOf(g, req, s, j) ==
    LET deps == default_dependencies(s)
    IN  IF j > Len(deps) THEN g
        ELSE LET g2 == IF Contains(req, deps[j]) THEN add_dependency(g, deps[j], s) ELSE g
             IN  Strict(g2, AddDepsOf(g2, req, s, j + 1))

\* from_stages, second loop
RECURSIVE AddAllDeps(_, _, _)
AddAllDeps(g, req, i) ==
    IF i > Len(req) THEN g
    ELSE LET g2 == AddDepsOf(g, req, req[i], 1)
         IN  Strict(g2, AddAllDeps(g2, req, i + 1))

\* StageDependencyGraph::from_stages
from_stages(req) == AddAllDeps(AddAllStages(NewGraph, req, 1), req, 1)

\* a faulty decrement loop: a dependent is queued at every decrement, not only
\* when its in-degree reaches zero
RECURSIVE DecrementDependents_QueueAlways(_, _, _)
DecrementDependents_QueueAlways(st, dependents, j) ==
    IF j > Len(dependents) THEN st
    ELSE LET d == dependents[j]
         IN  IF d \notin DOMAIN st.in_degree \/ st.in_degree[d] = 0
             THEN DecrementDependents_QueueAlways(st, dependents, j + 1)
             ELSE LET st2 == [st EXCEPT !.in_degree = MapPut(st.in_degree, d, st.in_degree[d] - 1),
                                        !.queue = Append(st.queue, d)]
                  IN  Strict(st2, DecrementDependents_QueueAlways(st2, dependents, j + 1))

\* topological_sort, lines 101-109: decrement the dependents of a popped stage.
\* A decrement of a zero usize is an arithmetic overflow; it is recorded.
RECURSIVE DecrementDependents(_, _, _)
DecrementDependents(st, dependents, j) ==
    IF j > Len(dependents) THEN st
    ELSE LET d == dependents[j]
         IN  IF d \notin DOMAIN st.in_degree THEN DecrementDependents(st, dependents, j + 1)
             ELSE IF st.in_degree[d] = 0
                  THEN DecrementDependents([st EXCEPT !.underflow = TRUE], dependents, j + 1)
                  ELSE LET deg == st.in_degree[d] - 1
                           st2 == [st EXCEPT !.in_degree = MapPut(st.in_degree, d, deg),
                                             !.queue = IF deg = 0 THEN Append(st.queue, d)
                                                       ELSE st.queue]
                       IN  Strict(st2, DecrementDependents(st2, dependents, j + 1))

\* a faulty layer loop: it pops until the queue is empty, newly queued
\* dependents included, instead of current_layer_size times
RECURSIVE ProcessLayer_DrainQueue(_, _, _)
ProcessLayer_DrainQueue(g, st, n) ==
    IF st.queue = <<>> THEN st
    ELSE LET stage == Head(st.queue)
             st1 == [st EXCEPT !.queue = Tail(st.queue),
                               !.current_layer = Append(st.current_layer, stage),
                               !.processed = st.processed + 1]
             st2 == IF stage \in DOMAIN g.adjacency
                    THEN DecrementDependents(st1, g.adjacency[stage], 1)
                    ELSE st1
         IN  Strict(st2, ProcessLayer_DrainQueue(g, st2, n))

\* topological_sort, lines 96-112: pop current_layer_size stages into one layer
RECURSIVE ProcessLayer(_, _, _)
ProcessLayer(g, st, n) ==
    IF n = 0 \/ st.queue = <<>> THEN st
    ELSE LET stage == Head(st.queue)
             st1 == [st EXCEPT !.queue = Tail(st.queue),
                               !.current_layer = Append(st.current_layer, stage),
                               !.processed = st.processed + 1]
             st2 == IF stage \in DOMAIN g.adjacency
                    THEN DecrementDependents(st1, g.adjacency[stage], 1)
                    ELSE st1
         IN  Strict(st2, ProcessLayer(g, st2, n - 1))

\* topological_sort, lines 92-117: one layer per pass while the queue is not empty
RECURSIVE SortLoop(_, _)
SortLoop(g, st) ==
    IF st.queue = <<>> THEN st
    ELSE LET st1 == ProcessLayer(g, [st EXCEPT !.current_layer = <<>>], Len(st.queue))
             st2 == IF st1.current_layer # <<>>
                    THEN [st1 EXCEPT !.layers = Append(st1.layers, st1.current_layer)]
                    ELSE st1
         IN  Strict(st2, SortLoop(g, st2))

\* the stages of in-degree zero, which the sort queues in map iteration order
ZeroInDegree(g) == {s \in DOMAIN g.in_degree : g.in_degree[s] = 0}

\* a faulty error report: every registered stage instead of the stranded ones
Stranded_AllStages(g, st) == g.stages

\* the remaining stages of the CircularDependency error: those of in-degree > 0
Stranded(g, st) ==
    {s \in g.stages : s \in DOMAIN st.in_degree /\ st.in_degree[s] > 0}

\* the stages the sort pushed into some layer
Placed(layers) == UNION {Range(layers[i]) : i \in 1..Len(layers)}

\* StageDependencyGraph::topological_sort; q0 is the iteration order of in_degree
topological_sort(g, q0) ==
    LET st == SortLoop(g, [in_degree |-> g.in_degree, queue |-> q0, layers |-> <<>>,
                           current_layer |-> <<>>, processed |-> 0, underflow |-> FALSE])
    IN  IF st.processed # Cardinality(g.stages)
        THEN [kind |-> "CircularDependency", layers |-> <<>>, remaining |-> Stranded(g, st),
              placed |-> Placed(st.layers), underflow |-> st.underflow]
        ELSE [kind |-> "Ok", layers |-> st.layers, remaining |-> {},
              placed |-> Placed(st.layers), underflow |-> st.underflow]

(***************************************************************************)
(* State.                                                                   *)
(***************************************************************************)
VARIABLES
    graph,        \* a StageDependencyGraph under construction
    built_from,   \* how graph was built: new, from_stages(request) or manual calls
    graph_ops,    \* manual add_stage / add_dependency calls made on graph
    sorted,       \* the value of the last topological_sort(), NoSort before
    last_call,    \* the call that last changed graph, with argument and graph before
                  \* if it was add_stage
    adj_order,    \* the iteration order of graph.adjacency, once it was iterated
    dep_queries,  \* the get_dependencies calls since graph was last changed
    targets,      \* Builder.targets: the kinds of the sub-projects
    results,      \* StageRunner.results: Stage -> StageResult (shared)
    statuses,     \* StageRunner.statuses: Stage -> StageStatus (shared)
    run,          \* the locals of the running top-level call of the runner
    tasks,        \* per stage: the execute_stage call made for it
    gen_calls,    \* per stage: calls of generate_steps_for_stage
    spawns,       \* per stage: processes spawned on its behalf
    status_log,   \* per stage: the statuses inserted for it, in order
    result_writes,\* per stage: inserts into the shared results map
    hard_errors,  \* the stages whose execute_stage returned Err
    sinks,        \* whether the receivers of log_tx and step_tx are alive
    events,       \* per stage: the StepUpdates sent on step_tx for it
    logs,         \* per stage: the LogEntries sent on log_tx for it
    ignored_sends,\* per stage: failed sends whose error was discarded
    step_io,      \* one execute_step call: its pipes, tasks, channel and sink
    results_lock, \* who holds the lock of StageRunner.results
    caller,       \* a thread calling get_status, get_result and clear
    program,      \* one execute_program call: its reader tasks and what it sent
    locking       \* who holds the two locks of a StageRunner, and where each
                  \* thread that takes them stands

graphVars == <<graph, built_from, graph_ops, sorted, last_call, adj_order, dep_queries>>

runVars == <<targets, results, statuses, run, tasks, gen_calls, spawns>>

\* what was written and returned so far
histVars == <<status_log, result_writes, hard_errors>>

\* the two channels of a StageContext
sinkVars == <<sinks, events, logs, ignored_sends>>

\* the inside of one execute_step call
stepVars == <<step_io>>

\* the lock of the results map and the thread that reads and clears the maps
lockVars == <<results_lock, caller>>

\* the inside of one execute_program call
progVars == <<program>>

\* the two locks of a StageRunner and the threads that take them
syncVars == <<locking>>

vars == <<graph, built_from, graph_ops, sorted, last_call, adj_order, dep_queries,
          targets, results, statuses, run, tasks, gen_calls, spawns,
          status_log, result_writes, hard_errors,
          sinks, events, logs, ignored_sends, step_io, results_lock, caller,
          program, locking>>

NoSort == [kind |-> "None", layers |-> <<>>, remaining |-> {}, placed |-> {}, underflow |-> FALSE]

\* the stages manual graphs are built over
GraphStages == {"Configure", "Build", "Install"}

\* Vec<Stage> in Stage::all() order holding exactly the stages of S
CanonSeq(S) == SelectSeq(AllStages, LAMBDA s : s \in S)

\* the requests from_stages is called with: every short request, with
\* repetitions and in any order, and every stage set in declaration order
GraphRequests == SeqsUpTo(Stage, MaxRequestLen) \cup {CanonSeq(S) : S \in SUBSET Stage}

\* the adjacency map was not iterated since it last changed
NotIterated == [known |-> FALSE, order |-> <<>>]

\* the record of one call on the graph
Call(op, arg, before) == [op |-> op, arg |-> arg, before |-> before]

\* a call whose argument is not kept
OtherCall(op) == Call(op, <<>>, NewGraph)

GraphInit ==
    /\ graph = NewGraph
    /\ built_from = [kind |-> "new", request |-> <<>>]
    /\ graph_ops = 0
    /\ sorted = NoSort
    /\ last_call = OtherCall("new")
    /\ adj_order = NotIterated
    /\ dep_queries = <<>>

\* let graph = StageDependencyGraph::from_stages(request)
FromStages(req) ==
    /\ built_from.kind = "new"
    /\ graph_ops = 0
    /\ sorted = NoSort
    /\ graph' = from_stages(req)
    /\ built_from' = [kind |-> "from_stages", request |-> req]
    /\ last_call' = OtherCall("from_stages")
    /\ adj_order' = NotIterated
    /\ dep_queries' = <<>>
    /\ UNCHANGED <<graph_ops, sorted>>
    /\ UNCHANGED <<runVars, histVars, sinkVars, stepVars, lockVars, progVars, syncVars>>

\* graph.add_stage(s) called by hand
AddStage(s) ==
    /\ built_from.kind \in {"new", "manual"}
    /\ graph_ops < MaxGraphOps
    /\ graph' = add_stage(graph, s)
    /\ built_from' = [kind |-> "manual", request |-> <<>>]
    /\ last_call' = Call("add_stage", <<s>>, graph)
    /\ adj_order' = NotIterated
    /\ dep_queries' = <<>>
    /\ graph_ops' = graph_ops + 1
    /\ sorted' = NoSort
    /\ UNCHANGED <<runVars, histVars, sinkVars, stepVars, lockVars, progVars, syncVars>>

\* graph.add_dependency(from, to) called by hand
AddDependency(from, to) ==
    /\ built_from.kind \in {"new", "manual"}
    /\ graph_ops < MaxGraphOps
    /\ graph' = add_dependency(graph, from, to)
    /\ built_from' = [kind |-> "manual", request |-> <<>>]
    /\ last_call' = OtherCall("add_dependency")
    /\ adj_order' = NotIterated
    /\ dep_queries' = <<>>
    /\ graph_ops' = graph_ops + 1
    /\ sorted' = NoSort
    /\ UNCHANGED <<runVars, histVars, sinkVars, stepVars, lockVars, progVars, syncVars>>

\* graph.topological_sort(); the graph is not changed
TopologicalSort ==
    /\ sorted = NoSort
    /\ \E q0 \in Orderings(ZeroInDegree(graph)) :
           sorted' = topological_sort(graph, q0)
    /\ UNCHANGED <<graph, built_from, graph_ops, last_call, adj_order, dep_queries>>
    /\ UNCHANGED <<runVars, histVars, sinkVars, stepVars, lockVars, progVars, syncVars>>

\* graph.get_dependencies(s): the adjacency map is iterated in the order it
\* has, which stays the same as long as the map is not changed
GetDependencies(s) ==
    /\ graph_ops <= MaxQueriedOps
    /\ Len(built_from.request) <= MaxQueriedOps
    /\ Len(dep_queries) < MaxQueries
    /\ \E order \in (IF adj_order.known THEN {adj_order.order}
                      ELSE Orderings(DOMAIN graph.adjacency)) :
           /\ adj_order' = [known |-> TRUE, order |-> order]
           /\ dep_queries' = Append(dep_queries,
                  [stage |-> s, deps |-> get_dependencies(graph, order, s),
                   graph_before |-> graph])
    /\ UNCHANGED <<graph, built_from, graph_ops, sorted, last_call>>
    /\ UNCHANGED <<runVars, histVars, sinkVars, stepVars, lockVars, progVars, syncVars>>

NextGraph ==
    \/ built_from.kind = "new" /\ \E req \in GraphRequests : FromStages(req)
    \/ \E s \in GraphStages : AddStage(s)
    \/ \E from, to \in GraphStages : AddDependency(from, to)
    \/ TopologicalSort

\* a graph that is built and asked for dependencies
NextQuery ==
    \/ built_from.kind = "new" /\ \E req \in GraphRequests : FromStages(req)
    \/ \E s \in GraphStages : AddStage(s)
    \/ \E from, to \in GraphStages : AddDependency(from, to)
    \/ \E s \in GraphStages : GetDependencies(s)

(***************************************************************************)
(* Step generation (stage_context.rs) and the builder (builder.rs).         *)
(***************************************************************************)
\* the kinds of the targets a builder is given; step generation tells only
\* Installer from the rest, so Executable stands for Root as well
TargetKinds == {"Executable", "Installer"}

\* the indices of the targets of kind Installer, in order
RECURSIVE InstallerTargets(_, _)
InstallerTargets(tl, i) ==
    IF i > Len(tl) THEN <<>>
    ELSE (IF tl[i] = "Installer" THEN <<i>> ELSE <<>>) \o InstallerTargets(tl, i + 1)

\* one step per target
PerTarget(tl) == [i \in 1..Len(tl) |-> i]

\* StageContext::generate_steps_for_stage: the steps of a stage, each named by
\* the index of the target it was generated for
generate_steps_for_stage(tl, s) ==
    CASE s = "PreValidation" -> <<>>
      [] s = "Configure" -> PerTarget(tl)
      [] s = "Build" -> PerTarget(tl)
      [] s = "Install" -> InstallerTargets(tl, 1)
      [] s = "Clean" -> PerTarget(tl)
      [] s = "PostBuild" -> <<>>
      [] s = "Test" -> <<>>
      [] s = "Exec" -> <<>>

(***************************************************************************)
(* Process outcomes and ExecutionResult (executor.rs).                      *)
(***************************************************************************)
None == [kind |-> "None"]

Some(v) == [kind |-> "Some", value |-> v]

\* how a spawned process ends: an exit code, or a terminating signal
ExitCodes == {0, 1}

Signals == {9}

ProcessOutcomes ==
    [kind : {"exit"}, n : ExitCodes] \cup [kind : {"signal"}, n : Signals]

\* a faulty status test: every exit code counts as success
StatusSuccess_AnyExit(o) == o.kind = "exit"

\* ExitStatus::success
StatusSuccess(o) == o.kind = "exit" /\ o.n = 0

\* ExitStatus::code
StatusCode(o) == IF o.kind = "exit" THEN Some(o.n) ELSE None

\* a message is the sequence of its parts: a fixed message has one part
Text(s) == <<s>>

\* format!("Exit code {}", code)
ExitCodeText(n) == <<"Exit code", n>>

\* a faulty table: every signal is given the name of SIGKILL
signal_name_AlwaysKilled(n) == "SIGKILL (Killed)"

\* execute_program, lines 416-428: the table of signal names
signal_name(n) ==
    CASE n = 1 -> "SIGHUP (Hangup)"
      [] n = 2 -> "SIGINT (Interrupt)"
      [] n = 3 -> "SIGQUIT (Quit)"
      [] n = 4 -> "SIGILL (Illegal instruction)"
      [] n = 6 -> "SIGABRT (Abort)"
      [] n = 8 -> "SIGFPE (Floating point exception)"
      [] n = 9 -> "SIGKILL (Killed)"
      [] n = 11 -> "SIGSEGV (Segmentation fault)"
      [] n = 13 -> "SIGPIPE (Broken pipe)"
      [] n = 15 -> "SIGTERM (Terminated)"
      [] OTHER -> "Unknown signal"

\* format!("Signal {} ({})", signal, signal_name)
SignalText(n) == <<"Signal", n, signal_name(n)>>

\* execute_step: the ExecutionResult built from the exit status
StepResult(o) ==
    [success |-> StatusSuccess(o),
     exit_code |-> StatusCode(o),
     failure_reason |-> IF ~StatusSuccess(o)
                        THEN (IF o.kind = "exit" THEN Some(ExitCodeText(o.n)) ELSE None)
                        ELSE None]

\* execute_program: the ExecutionResult built from the exit status
ProgramResult(o) ==
    [success |-> StatusSuccess(o),
     exit_code |-> StatusCode(o),
     failure_reason |-> IF o.kind = "signal" THEN Some(SignalText(o.n))
                        ELSE IF o.n # 0 THEN Some(ExitCodeText(o.n))
                        ELSE None]

\* a faulty loop: it goes on after a failed step
StepsLoopContinues_IgnoreFailure(steps, exec_results) == Len(exec_results) < Len(steps)

\* execute_steps, lines 315-320: the loop goes on after a result only when it
\* succeeded and steps are left
StepsLoopContinues(steps, exec_results) ==
    /\ exec_results[Len(exec_results)].success
    /\ Len(exec_results) < Len(steps)

(***************************************************************************)
(* StepUpdate (executor.rs) and LogEntry: what goes over the two channels.  *)
(***************************************************************************)
\* the process ids a spawned child may report
Pids == {101}

\* Child::id(): the id, or None when the child was already reaped
PidOptions == {None} \cup {Some(p) : p \in Pids}

Started(step) == [update |-> "Started", step |-> step]

Finished(res) == [update |-> "Finished", result |-> res]

ProcessStarted(p) == [update |-> "ProcessStarted", pid |-> p]

ProcessFinished(p) == [update |-> "ProcessFinished", pid |-> p]

Metric == [update |-> "Metric"]

\* the entry made of a line of output
OutputEntry == [component |-> "output", level |-> "Info", text |-> Text("line")]

\* execute_program, lines 432-446: the entry synthesized for a signal
SignalEntry(n) ==
    [component |-> "system", level |-> "Error",
     text |-> <<"Process terminated by signal", n, signal_name(n)>>]

\* execute_program, lines 476-483: the entry synthesized for an exit code
ExitCodeEntry(n) ==
    [component |-> "system", level |-> "Warning", text |-> <<"Process exited with code", n>>]

\* execute_program, lines 415-488: the entries synthesized for an outcome
ProgramEntries(o) ==
    IF o.kind = "signal" THEN <<SignalEntry(o.n)>>
    ELSE IF o.n # 0 THEN <<ExitCodeEntry(o.n)>>
    ELSE <<>>

\* execute_step, lines 218-222, execute_program, lines 343-348
SpawnEvents(p) == IF p.kind = "Some" THEN <<ProcessStarted(p.value)>> ELSE <<>>

\* a faulty end of a step: Finished is sent before ProcessFinished
StepEndEvents_FinishedFirst(res, p) ==
    <<Finished(res)>> \o (IF p.kind = "Some" THEN <<ProcessFinished(p.value)>> ELSE <<>>)

\* execute_step, lines 264-268, then execute_steps, lines 311-313
StepEndEvents(res, p) ==
    (IF p.kind = "Some" THEN <<ProcessFinished(p.value)>> ELSE <<>>) \o <<Finished(res)>>

\* a faulty end of execute_program: ProcessFinished is never sent
ProgramEndEvents_NoProcessFinished(res, p) == <<Finished(res)>>

\* execute_program, lines 499-507
ProgramEndEvents(res, p) ==
    <<Finished(res)>> \o (IF p.kind = "Some" THEN <<ProcessFinished(p.value)>> ELSE <<>>)

(***************************************************************************)
(* StageResult, StageStatus (stage_context.rs) and execute_stage's result.  *)
(***************************************************************************)
Success(n) == [kind |-> "Success", steps_executed |-> n]

Failed(e, n) == [kind |-> "Failed", error |-> e, steps_executed |-> n]

Skipped(r) == [kind |-> "Skipped", reason |-> r]

IsFailed(r) == r.kind = "Failed"

\* a faulty default: the reason of a failed step is dropped
UnwrapOr_AlwaysDefault(opt, default) == default

\* Option::unwrap_or_else
UnwrapOr(opt, default) == IF opt.kind = "Some" THEN opt.value ELSE default

\* execution_results.iter().find(|r| !r.success)
FirstFailing(exec_results) ==
    LET bad == {i \in 1..Len(exec_results) : ~exec_results[i].success}
    IN  IF bad = {} THEN None
        ELSE Some(exec_results[CHOOSE i \in bad : \A j \in bad : i <= j])

\* a faulty stage result: the results of the steps are not looked at
StepsStageResult_AlwaysSuccess(exec_results) == Success(Len(exec_results))

\* a faulty stage result: a failed step list reported as skipped
StepsStageResult_FailedAsSkipped(exec_results) ==
    IF \A i \in 1..Len(exec_results) : exec_results[i].success
    THEN Success(Len(exec_results))
    ELSE Skipped("Stage execution failed")

\* execute_stage, lines 193-214: the stage result of an executed step list
StepsStageResult(exec_results) ==
    LET steps_executed == Len(exec_results)
        success == \A i \in 1..Len(exec_results) : exec_results[i].success
    IN  IF success THEN Success(steps_executed)
        ELSE LET first == FirstFailing(exec_results)
                 reason == IF first.kind = "Some" THEN first.value.failure_reason ELSE None
             IN  Failed(UnwrapOr(reason, Text("Stage execution failed")), steps_executed)

\* a faulty program result: the program is not counted as a step
ProgramStageResult_ZeroSteps(r) ==
    IF r.success THEN Success(0)
    ELSE Failed(UnwrapOr(r.failure_reason, Text("Execution failed")), 0)

\* execute_stage, lines 113-126: the stage result of the executed program
ProgramStageResult(r) ==
    IF r.success THEN Success(1)
    ELSE Failed(UnwrapOr(r.failure_reason, Text("Execution failed")), 1)

\* a faulty result for an empty step list: nothing to do counted as done
EmptyStepsResult_Success == Success(0)

\* execute_stage, lines 164-167: the result of a stage without steps
EmptyStepsResult == Skipped("No steps to execute")

\* the status written with a result
StatusOf(r) ==
    CASE r.kind = "Success" -> "Completed"
      [] r.kind = "Failed" -> "Failed"
      [] r.kind = "Skipped" -> "Skipped"

(***************************************************************************)
(* StageRunner (stage_runner.rs).                                           *)
(***************************************************************************)
\* longest request handed to execute_with_dependencies in any order
MaxRunRequestLen == 2
\* most targets of the builder of a run
MaxTargets == 2

\* most lines a process writes while it is waited for
MaxOutputLines == 1

\* an execute_stage call: where it stands, whether its context has an
\* executable descriptor, its generated steps, the steps whose process it
\* spawned, the results execute_steps collected, and what it returned; the
\* outcomes of its processes, the process id observed at the last spawn, the
\* lines the running process wrote, and whether a reader task panicked
NoTask == [pc |-> "none", has_info |-> FALSE, steps |-> <<>>, ran |-> <<>>,
           exec_results |-> <<>>, ret |-> None,
           outcomes |-> <<>>, pid |-> None, lines |-> 0, reader_panicked |-> FALSE]

\* most calls of execute_with_dependencies made on a runner that has already
\* returned from one
MaxRepeatedCalls == 1

\* the top-level call: which one, where it stands, its arguments and locals,
\* whether its context has an executable descriptor, and the calls the
\* runner returned from before
IdleRun == [call |-> "none", pc |-> "idle", request |-> <<>>, layers |-> <<>>, layer_i |-> 0,
            stage_i |-> 0, all_results |-> EmptyMap, layer_results |-> EmptyMap,
            ret |-> "none", info |-> FALSE, past_calls |-> 0]

\* StageRunner::new with a Builder::new: no targets, empty maps; the channels
\* of the context have their receivers
RunInit ==
    /\ targets = <<>>
    /\ results = EmptyMap
    /\ statuses = EmptyMap
    /\ run = IdleRun
    /\ tasks = [s \in Stage |-> NoTask]
    /\ gen_calls = [s \in Stage |-> 0]
    /\ spawns = [s \in Stage |-> 0]
    /\ status_log = [s \in Stage |-> <<>>]
    /\ result_writes = [s \in Stage |-> 0]
    /\ hard_errors = {}
    /\ sinks = [log_rx |-> TRUE, step_rx |-> TRUE]
    /\ events = [s \in Stage |-> <<>>]
    /\ logs = [s \in Stage |-> <<>>]
    /\ ignored_sends = [s \in Stage |-> 0]


\* Builder::with_targets, before the runner is used
WithTargets(tl) ==
    /\ run.pc = "idle"
    /\ targets = <<>>
    /\ tl # <<>>
    /\ targets' = tl
    /\ UNCHANGED <<results, statuses, run, tasks, gen_calls, spawns>>
    /\ UNCHANGED <<graphVars, stepVars, histVars, sinkVars, lockVars, progVars, syncVars>>

\* a faulty fail-fast check: it never sees a failure
previous_failures_Never(res) == FALSE

\* results.values().any(|r| matches!(r, StageResult::Failed { .. }))
previous_failures(res) == \E s \in DOMAIN res : IsFailed(res[s])

\* a faulty eligibility test: any eligible stage makes the layer concurrent
RunsConcurrently_Any(layer) ==
    /\ \E i \in 1..Len(layer) : can_run_concurrent(layer[i])
    /\ Len(layer) > 1

\* layer.iter().all(|s| s.metadata().can_run_concurrent) && layer.len() > 1
RunsConcurrently(layer) ==
    /\ \A i \in 1..Len(layer) : can_run_concurrent(layer[i])
    /\ Len(layer) > 1

\* StageContext::new (stage_context.rs, lines 45-56), as called by
\* execute_with_dependencies (lines 315-318) and execute_stages_concurrent
\* (lines 249-252) with the builder and the channels of the caller's context:
\* the new context has no executable descriptor, whether the caller's has one
\* or not
new_ctx(info) == FALSE

\* a faulty call: the Running status is taken as already written
CalledTask_AlreadyRunning(info) == [NoTask EXCEPT !.pc = "running", !.has_info = info]

\* a call of execute_stage, or a task spawned for one, that has not run yet
CalledTask(info) == [NoTask EXCEPT !.pc = "called", !.has_info = info]

\* a faulty skip loop: it marks every requested stage, not the layer's
SkippedStages_WholeRequest(r) == r.request

\* execute_with_dependencies, line 293: the stages the skip loop goes over
SkippedStages(r) == r.layers[r.layer_i]

\* a faulty join: the error of a task is not looked at
JoinFails_Never(task) == FALSE

\* a faulty join: a task that returned a Failed result counts as a task error
JoinFails_FailedResult(task) ==
    task.pc \in {"error", "panicked"} \/ (task.pc = "returned" /\ IsFailed(task.ret))

\* execute_stages_concurrent, line 263: handle.await?? fails on a task that
\* panicked (JoinError) or returned Err
JoinFails(task) == task.pc \in {"error", "panicked"}

\* execute_with_dependencies, lines 275-282: build the graph and sort it
ExecuteWithDependencies(req) ==
    /\ run.pc = "idle"
    /\ LET g == from_stages(req)
       IN  \E q0 \in Orderings(ZeroInDegree(g)) :
               LET sorted_layers == topological_sort(g, q0)
               IN  run' = IF sorted_layers.kind = "Ok"
                          THEN [run EXCEPT !.call = "execute_with_dependencies",
                                           !.pc = "layer", !.request = req,
                                           !.layers = sorted_layers.layers, !.layer_i = 1]
                          ELSE [run EXCEPT !.call = "execute_with_dependencies",
                                           !.pc = "done", !.request = req, !.ret = "Err"]
    /\ UNCHANGED <<targets, results, statuses, tasks, gen_calls, spawns>>
    /\ UNCHANGED <<graphVars, stepVars, histVars, sinkVars, lockVars, progVars, syncVars>>

\* execute_with_dependencies called again on a runner whose earlier call has
\* returned Ok, without clear() in between: the locals of the call are new,
\* the results and statuses of the runner are as the earlier call left them
ExecuteAgain(req) ==
    /\ run.call = "execute_with_dependencies"
    /\ run.pc = "done"
    /\ run.ret = "Ok"
    /\ run.past_calls < MaxRepeatedCalls
    /\ LET g == from_stages(req)
       IN  \E q0 \in Orderings(ZeroInDegree(g)) :
               LET sorted_layers == topological_sort(g, q0)
               IN  run' = IF sorted_layers.kind = "Ok"
                          THEN [IdleRun EXCEPT !.call = "execute_with_dependencies",
                                               !.pc = "layer", !.request = req,
                                               !.layers = sorted_layers.layers, !.layer_i = 1,
                                               !.past_calls = run.past_calls + 1]
                          ELSE [IdleRun EXCEPT !.call = "execute_with_dependencies",
                                               !.pc = "done", !.request = req, !.ret = "Err",
                                               !.past_calls = run.past_calls + 1]
    /\ UNCHANGED <<targets, results, statuses, tasks, gen_calls, spawns>>
    /\ UNCHANGED <<graphVars, stepVars, histVars, sinkVars, lockVars, progVars, syncVars>>

\* execute_with_dependencies called with a context made with_executable
\* (stage_context.rs, lines 58-61): the graph is built and sorted as above
ExecuteWithExecutable(req) ==
    /\ run.pc = "idle"
    /\ LET g == from_stages(req)
       IN  \E q0 \in Orderings(ZeroInDegree(g)) :
               LET sorted_layers == topological_sort(g, q0)
               IN  run' = IF sorted_layers.kind = "Ok"
                          THEN [run EXCEPT !.call = "execute_with_dependencies",
                                           !.pc = "layer", !.request = req, !.info = TRUE,
                                           !.layers = sorted_layers.layers, !.layer_i = 1]
                          ELSE [run EXCEPT !.call = "execute_with_dependencies",
                                           !.pc = "done", !.request = req, !.info = TRUE,
                                           !.ret = "Err"]
    /\ UNCHANGED <<targets, results, statuses, tasks, gen_calls, spawns>>
    /\ UNCHANGED <<graphVars, stepVars, histVars, sinkVars, lockVars, progVars, syncVars>>

\* execute_with_dependencies, lines 284-327: the top of the layer loop. The
\* shared results are read; then the layer is skipped, spawned as concurrent
\* tasks, or its first stage is executed.
LayerBegin ==
    /\ run.pc = "layer"
    /\ run.layer_i <= Len(run.layers)
    /\ LET layer == run.layers[run.layer_i]
       IN  IF previous_failures(results)
           THEN /\ run' = [run EXCEPT !.pc = "skip", !.stage_i = 1]
                /\ UNCHANGED tasks
           ELSE IF RunsConcurrently(layer)
           THEN /\ run' = [run EXCEPT !.pc = "join", !.stage_i = 1,
                                      !.layer_results = EmptyMap]
                /\ tasks' = [s \in Stage |->
                                IF s \in Range(layer) THEN CalledTask(new_ctx(run.info))
                                ELSE tasks[s]]
           ELSE /\ run' = [run EXCEPT !.pc = "seq", !.stage_i = 1]
                /\ tasks' = [tasks EXCEPT ![layer[1]] = CalledTask(new_ctx(run.info))]
    /\ UNCHANGED <<targets, results, statuses, gen_calls, spawns>>
    /\ UNCHANGED <<graphVars, stepVars, histVars, sinkVars, lockVars, progVars, syncVars>>

\* execute_with_dependencies, lines 293-303: one stage of a skipped layer
SkipStage ==
    /\ run.pc = "skip"
    /\ LET layer == SkippedStages(run)
           stage == layer[run.stage_i]
           skip_result == Skipped("Previous stage failed")
       IN  /\ results' = MapPut(results, stage, skip_result)
           /\ statuses' = MapPut(statuses, stage, "Skipped")
           /\ status_log' = [status_log EXCEPT ![stage] = Append(@, "Skipped")]
           /\ result_writes' = [result_writes EXCEPT ![stage] = @ + 1]
           /\ run' = IF run.stage_i < Len(layer)
                     THEN [run EXCEPT !.all_results = MapPut(run.all_results, stage, skip_result),
                                      !.stage_i = run.stage_i + 1]
                     ELSE [run EXCEPT !.all_results = MapPut(run.all_results, stage, skip_result),
                                      !.pc = "layer", !.layer_i = run.layer_i + 1]
    /\ UNCHANGED <<targets, tasks, gen_calls, spawns, hard_errors>>
    /\ UNCHANGED <<graphVars, stepVars, sinkVars, lockVars, progVars, syncVars>>

\* a faulty sequential loop: it goes on after a Failed stage
BreaksLayer_Never(all, stage) == FALSE

\* execute_with_dependencies, lines 323-325: the test before break
BreaksLayer(all, stage) == stage \in DOMAIN all /\ IsFailed(all[stage])

\* execute_with_dependencies, lines 314-326: execute_stage of the sequential
\* loop returned, or panicked and took the caller with it
SeqReturn ==
    /\ run.pc = "seq"
    /\ LET layer == run.layers[run.layer_i]
           stage == layer[run.stage_i]
           task == tasks[stage]
       IN  /\ task.pc \in {"returned", "error", "panicked"}
           /\ IF task.pc \in {"error", "panicked"}
              THEN /\ run' = [run EXCEPT !.pc = "done",
                                         !.ret = IF task.pc = "error" THEN "Err" ELSE "Panic"]
                   /\ tasks' = [tasks EXCEPT ![stage] = NoTask]
              ELSE LET all == MapPut(run.all_results, stage, task.ret)
                   IN  IF ~BreaksLayer(all, stage) /\ run.stage_i < Len(layer)
                       THEN /\ run' = [run EXCEPT !.all_results = all,
                                                  !.stage_i = run.stage_i + 1]
                            /\ tasks' = [tasks EXCEPT ![stage] = NoTask,
                                                      ![layer[run.stage_i + 1]] =
                                                          CalledTask(new_ctx(run.info))]
                       ELSE /\ run' = [run EXCEPT !.all_results = all, !.pc = "layer",
                                                  !.layer_i = run.layer_i + 1]
                            /\ tasks' = [tasks EXCEPT ![stage] = NoTask]
    /\ UNCHANGED <<targets, results, statuses, gen_calls, spawns>>
    /\ UNCHANGED <<graphVars, stepVars, histVars, sinkVars, lockVars, progVars, syncVars>>

\* a faulty join: the pair of a Failed stage is left out of the map
JoinedResults_FailedLeftOut(joined, stage, ret) ==
    IF IsFailed(ret) THEN joined ELSE MapPut(joined, stage, ret)

\* execute_stages_concurrent, lines 263-264: the pair a task returned is
\* inserted into the map of the batch
JoinedResults(joined, stage, ret) == MapPut(joined, stage, ret)

\* execute_stages_concurrent, lines 261-267, and line 312: the next handle of
\* the batch is joined; a task error returns at once, the other tasks run on
JoinTask ==
    /\ run.pc = "join"
    /\ LET layer == run.layers[run.layer_i]
           stage == layer[run.stage_i]
           task == tasks[stage]
       IN  /\ task.pc \in {"returned", "error", "panicked"}
           /\ tasks' = [tasks EXCEPT ![stage] = NoTask]
           /\ IF JoinFails(task)
              THEN run' = [run EXCEPT !.pc = "done", !.ret = "Err"]
              ELSE LET joined == JoinedResults(run.layer_results, stage, task.ret)
                   IN  IF run.stage_i < Len(layer)
                       THEN run' = [run EXCEPT !.layer_results = joined,
                                               !.stage_i = run.stage_i + 1]
                       ELSE run' = [run EXCEPT
                                        !.layer_results = joined,
                                        !.all_results =
                                            [s \in DOMAIN run.all_results \cup DOMAIN joined |->
                                                IF s \in DOMAIN joined THEN joined[s]
                                                ELSE run.all_results[s]],
                                        !.pc = "layer", !.layer_i = run.layer_i + 1]
    /\ UNCHANGED <<targets, results, statuses, gen_calls, spawns>>
    /\ UNCHANGED <<graphVars, stepVars, histVars, sinkVars, lockVars, progVars, syncVars>>

\* execute_with_dependencies, line 330: Ok(all_results) after the last layer
ReturnOk ==
    /\ run.pc = "layer"
    /\ run.layer_i > Len(run.layers)
    /\ run' = [run EXCEPT !.pc = "done", !.ret = "Ok"]
    /\ UNCHANGED <<targets, results, statuses, tasks, gen_calls, spawns>>
    /\ UNCHANGED <<graphVars, stepVars, histVars, sinkVars, lockVars, progVars, syncVars>>

\* a caller's own execute_stage(stage, context), the context with or without
\* an executable descriptor
ExecuteStageDirect(stage, info) ==
    /\ run.pc = "idle"
    /\ run' = [run EXCEPT !.call = "execute_stage", !.pc = "direct", !.request = <<stage>>]
    /\ tasks' = [tasks EXCEPT ![stage] = CalledTask(info)]
    /\ UNCHANGED <<targets, results, statuses, gen_calls, spawns>>
    /\ UNCHANGED <<graphVars, stepVars, histVars, sinkVars, lockVars, progVars, syncVars>>

\* the caller's execute_stage returned, or panicked
DirectReturn ==
    /\ run.pc = "direct"
    /\ LET stage == run.request[1]
           pc == tasks[stage].pc
       IN  /\ pc \in {"returned", "error", "panicked"}
           /\ run' = [run EXCEPT !.pc = "done",
                                 !.ret = CASE pc = "returned" -> "Ok"
                                           [] pc = "error" -> "Err"
                                           [] pc = "panicked" -> "Panic",
                                 !.all_results =
                                     IF pc = "returned"
                                     THEN MapPut(EmptyMap, stage, tasks[stage].ret)
                                     ELSE EmptyMap]
           /\ tasks' = [tasks EXCEPT ![stage] = NoTask]
    /\ UNCHANGED <<targets, results, statuses, gen_calls, spawns>>
    /\ UNCHANGED <<graphVars, stepVars, histVars, sinkVars, lockVars, progVars, syncVars>>

(***************************************************************************)
(* The consumers of the two channels.                                       *)
(***************************************************************************)
\* the receiver of log_tx is dropped while the runner works
CloseLogReceiver ==
    /\ run.pc \notin {"idle", "done"}
    /\ sinks.log_rx
    /\ sinks' = [sinks EXCEPT !.log_rx = FALSE]
    /\ UNCHANGED <<events, logs, ignored_sends>>
    /\ UNCHANGED <<graphVars, stepVars, runVars, histVars, lockVars, progVars, syncVars>>

\* the receiver of step_tx is dropped while the runner works
CloseStepReceiver ==
    /\ run.pc \notin {"idle", "done"}
    /\ sinks.step_rx
    /\ sinks' = [sinks EXCEPT !.step_rx = FALSE]
    /\ UNCHANGED <<events, logs, ignored_sends>>
    /\ UNCHANGED <<graphVars, stepVars, runVars, histVars, lockVars, progVars, syncVars>>

(***************************************************************************)
(* execute_stage, one action per critical section or suspension point.      *)
(***************************************************************************)
\* the two inserts of a result and its status under the results lock
WriteResult(s, r) ==
    /\ results' = MapPut(results, s, r)
    /\ statuses' = MapPut(statuses, s, StatusOf(r))
    /\ status_log' = [status_log EXCEPT ![s] = Append(@, StatusOf(r))]
    /\ result_writes' = [result_writes EXCEPT ![s] = @ + 1]

\* execute_stage, lines 99-102: status Running
StageBegin(s) ==
    /\ tasks[s].pc = "called"
    /\ statuses' = MapPut(statuses, s, "Running")
    /\ status_log' = [status_log EXCEPT ![s] = Append(@, "Running")]
    /\ tasks' = [tasks EXCEPT ![s].pc = "running"]
    /\ UNCHANGED <<targets, results, run, gen_calls, spawns, result_writes, hard_errors>>
    /\ UNCHANGED <<graphVars, stepVars, sinkVars, lockVars, progVars, syncVars>>

\* execute_stage, lines 143-159: Exec without an executable descriptor
ExecWithoutInfo(s) ==
    /\ s = "Exec"
    /\ tasks[s].pc = "running"
    /\ ~tasks[s].has_info
    /\ LET r == Failed(Text("Exec stage requires executable info"), 0)
       IN  /\ WriteResult(s, r)
           /\ tasks' = [tasks EXCEPT ![s].pc = "returned", ![s].ret = r]
    /\ UNCHANGED <<targets, run, gen_calls, spawns, hard_errors>>
    /\ UNCHANGED <<graphVars, stepVars, sinkVars, lockVars, progVars, syncVars>>

\* execute_stage, lines 105-111, execute_program lines 336-348: the program is
\* spawned and its process id announced, or the spawn fails and the error is
\* returned; announcing to a dropped receiver panics
ExecSpawnProgram(s, ok, p) ==
    /\ s = "Exec"
    /\ tasks[s].pc = "running"
    /\ tasks[s].has_info
    /\ IF ~ok
       THEN /\ tasks' = [tasks EXCEPT ![s].pc = "error"]
            /\ hard_errors' = hard_errors \cup {s}
            /\ UNCHANGED <<spawns, events>>
       ELSE /\ spawns' = [spawns EXCEPT ![s] = spawns[s] + 1]
            /\ UNCHANGED hard_errors
            /\ IF SpawnEvents(p) # <<>> /\ ~sinks.step_rx
               THEN /\ tasks' = [tasks EXCEPT ![s].pc = "panicked", ![s].pid = p]
                    /\ UNCHANGED events
               ELSE /\ tasks' = [tasks EXCEPT ![s].pc = "wait_program", ![s].pid = p]
                    /\ events' = [events EXCEPT ![s] = @ \o SpawnEvents(p)]
    /\ UNCHANGED <<targets, results, statuses, run, gen_calls>>
    /\ UNCHANGED <<status_log, result_writes, sinks, logs, ignored_sends>>
    /\ UNCHANGED <<graphVars, stepVars, lockVars, progVars, syncVars>>

\* execute_program, lines 356-397: a reader task forwards a line of the
\* program, a metric on step_tx or an entry on log_tx; a dropped receiver
\* panics the reader task
ProgramLine(s, kind) ==
    /\ tasks[s].pc = "wait_program"
    /\ tasks[s].lines < MaxOutputLines
    /\ ~tasks[s].reader_panicked
    /\ IF kind = "metric"
       THEN IF sinks.step_rx
            THEN /\ events' = [events EXCEPT ![s] = Append(@, Metric)]
                 /\ tasks' = [tasks EXCEPT ![s].lines = @ + 1]
                 /\ UNCHANGED logs
            ELSE /\ tasks' = [tasks EXCEPT ![s].lines = @ + 1, ![s].reader_panicked = TRUE]
                 /\ UNCHANGED <<events, logs>>
       ELSE IF sinks.log_rx
            THEN /\ logs' = [logs EXCEPT ![s] = Append(@, OutputEntry)]
                 /\ tasks' = [tasks EXCEPT ![s].lines = @ + 1]
                 /\ UNCHANGED events
            ELSE /\ tasks' = [tasks EXCEPT ![s].lines = @ + 1, ![s].reader_panicked = TRUE]
                 /\ UNCHANGED <<events, logs>>
    /\ UNCHANGED <<targets, results, statuses, run, gen_calls, spawns>>
    /\ UNCHANGED <<sinks, ignored_sends>>
    /\ UNCHANGED <<graphVars, stepVars, histVars, lockVars, progVars, syncVars>>

\* execute_program, lines 399-509: the program ends. A panicked reader task
\* makes the join fail and Err is returned; else the entries of the outcome
\* are sent on log_tx, then Finished and ProcessFinished on step_tx, each
\* send panicking on a dropped receiver, and the result is returned
ProgramExit(s, o) ==
    /\ tasks[s].pc = "wait_program"
    /\ IF tasks[s].reader_panicked
       THEN /\ tasks' = [tasks EXCEPT ![s].pc = "error"]
            /\ hard_errors' = hard_errors \cup {s}
            /\ UNCHANGED <<events, logs>>
       ELSE /\ UNCHANGED hard_errors
            /\ IF ProgramEntries(o) # <<>> /\ ~sinks.log_rx
               THEN /\ tasks' = [tasks EXCEPT ![s].pc = "panicked"]
                    /\ UNCHANGED <<events, logs>>
               ELSE /\ logs' = [logs EXCEPT ![s] = @ \o ProgramEntries(o)]
                    /\ IF ~sinks.step_rx
                       THEN /\ tasks' = [tasks EXCEPT ![s].pc = "panicked"]
                            /\ UNCHANGED events
                       ELSE /\ events' = [events EXCEPT ![s] =
                                             @ \o ProgramEndEvents(ProgramResult(o), tasks[s].pid)]
                            /\ tasks' = [tasks EXCEPT
                                            ![s].pc = "finish_program",
                                            ![s].exec_results = <<ProgramResult(o)>>,
                                            ![s].outcomes = <<o>>]
    /\ UNCHANGED <<targets, results, statuses, run, gen_calls, spawns>>
    /\ UNCHANGED <<status_log, result_writes, sinks, ignored_sends>>
    /\ UNCHANGED <<graphVars, stepVars, lockVars, progVars, syncVars>>

\* execute_stage, lines 113-142: the result of the program is recorded
FinishProgram(s) ==
    /\ tasks[s].pc = "finish_program"
    /\ LET r == ProgramStageResult(tasks[s].exec_results[1])
       IN  /\ WriteResult(s, r)
           /\ tasks' = [tasks EXCEPT ![s].pc = "returned", ![s].ret = r]
    /\ UNCHANGED <<targets, run, gen_calls, spawns, hard_errors>>
    /\ UNCHANGED <<graphVars, stepVars, sinkVars, lockVars, progVars, syncVars>>

\* execute_stage, lines 162-177: the steps are generated; none gives Skipped
GenerateSteps(s) ==
    /\ s # "Exec"
    /\ tasks[s].pc = "running"
    /\ gen_calls' = [gen_calls EXCEPT ![s] = gen_calls[s] + 1]
    /\ LET steps == generate_steps_for_stage(targets, s)
       IN  IF steps = <<>>
           THEN LET r == EmptyStepsResult
                IN  /\ WriteResult(s, r)
                    /\ tasks' = [tasks EXCEPT ![s].pc = "returned", ![s].ret = r]
           ELSE /\ tasks' = [tasks EXCEPT ![s].pc = "spawn", ![s].steps = steps]
                /\ UNCHANGED <<results, statuses, status_log, result_writes>>
    /\ UNCHANGED <<targets, run, spawns, hard_errors>>
    /\ UNCHANGED <<graphVars, stepVars, sinkVars, lockVars, progVars, syncVars>>

\* execute_steps, lines 303-309, execute_step lines 210-222: Started is sent,
\* then the next step's process is spawned and its process id announced, or
\* the spawn fails and the error is returned; a send to a dropped receiver
\* panics
SpawnStep(s, ok, p) ==
    /\ tasks[s].pc = "spawn"
    /\ LET step == tasks[s].steps[Len(tasks[s].exec_results) + 1]
       IN  IF ~sinks.step_rx
           THEN /\ tasks' = [tasks EXCEPT ![s].pc = "panicked"]
                /\ UNCHANGED <<spawns, events, hard_errors>>
           ELSE IF ~ok
           THEN /\ tasks' = [tasks EXCEPT ![s].pc = "error"]
                /\ events' = [events EXCEPT ![s] = Append(@, Started(step))]
                /\ hard_errors' = hard_errors \cup {s}
                /\ UNCHANGED spawns
           ELSE /\ spawns' = [spawns EXCEPT ![s] = spawns[s] + 1]
                /\ events' = [events EXCEPT ![s] = Append(@, Started(step)) \o SpawnEvents(p)]
                /\ tasks' = [tasks EXCEPT ![s].pc = "wait",
                                          ![s].ran = Append(tasks[s].ran, step),
                                          ![s].pid = p,
                                          ![s].lines = 0]
                /\ UNCHANGED hard_errors
    /\ UNCHANGED <<targets, results, statuses, run, gen_calls>>
    /\ UNCHANGED <<status_log, result_writes, sinks, logs, ignored_sends>>
    /\ UNCHANGED <<graphVars, stepVars, lockVars, progVars, syncVars>>

\* execute_stage, lines 185-188, the output callback of execute_steps: the
\* entry parsed from a line is sent on log_tx and the outcome of the send is
\* discarded
StepLine(s) ==
    /\ tasks[s].pc = "wait"
    /\ tasks[s].lines < MaxOutputLines
    /\ tasks' = [tasks EXCEPT ![s].lines = @ + 1]
    /\ IF sinks.log_rx
       THEN /\ logs' = [logs EXCEPT ![s] = Append(@, OutputEntry)]
            /\ UNCHANGED ignored_sends
       ELSE /\ ignored_sends' = [ignored_sends EXCEPT ![s] = @ + 1]
            /\ UNCHANGED logs
    /\ UNCHANGED <<targets, results, statuses, run, gen_calls, spawns>>
    /\ UNCHANGED <<sinks, events>>
    /\ UNCHANGED <<graphVars, stepVars, histVars, lockVars, progVars, syncVars>>

\* execute_step, lines 259-290, execute_steps lines 311-321: the process ends,
\* ProcessFinished and Finished are sent, a send to a dropped receiver
\* panicking; the result is pushed, and the loop goes on or stops
StepExit(s, o) ==
    /\ tasks[s].pc = "wait"
    /\ IF ~sinks.step_rx
       THEN /\ tasks' = [tasks EXCEPT ![s].pc = "panicked"]
            /\ UNCHANGED events
       ELSE LET exec_results == Append(tasks[s].exec_results, StepResult(o))
            IN  /\ events' = [events EXCEPT ![s] = @ \o StepEndEvents(StepResult(o), tasks[s].pid)]
                /\ tasks' = [tasks EXCEPT
                                ![s].exec_results = exec_results,
                                ![s].outcomes = Append(@, o),
                                ![s].pc = IF StepsLoopContinues(tasks[s].steps, exec_results)
                                          THEN "spawn" ELSE "finish"]
    /\ UNCHANGED <<targets, results, statuses, run, gen_calls, spawns>>
    /\ UNCHANGED <<sinks, logs, ignored_sends>>
    /\ UNCHANGED <<graphVars, stepVars, histVars, lockVars, progVars, syncVars>>

\* execute_stage, lines 193-230: the result of the step list is recorded
FinishSteps(s) ==
    /\ tasks[s].pc = "finish"
    /\ LET r == StepsStageResult(tasks[s].exec_results)
       IN  /\ WriteResult(s, r)
           /\ tasks' = [tasks EXCEPT ![s].pc = "returned", ![s].ret = r]
    /\ UNCHANGED <<targets, run, gen_calls, spawns, hard_errors>>
    /\ UNCHANGED <<graphVars, stepVars, sinkVars, lockVars, progVars, syncVars>>

\* the steps of execute_stage whose processes report a process id and write
\* nothing
StageStep(s) ==
    \/ StageBegin(s)
    \/ ExecWithoutInfo(s)
    \/ \E ok \in BOOLEAN, p \in PidOptions \ {None} : ExecSpawnProgram(s, ok, p)
    \/ \E o \in ProcessOutcomes : ProgramExit(s, o)
    \/ FinishProgram(s)
    \/ GenerateSteps(s)
    \/ \E ok \in BOOLEAN, p \in PidOptions \ {None} : SpawnStep(s, ok, p)
    \/ \E o \in ProcessOutcomes : StepExit(s, o)
    \/ FinishSteps(s)

\* the steps of execute_stage, the processes writing lines and reporting a
\* process id or none
StageStepOutput(s) ==
    \/ StageBegin(s)
    \/ ExecWithoutInfo(s)
    \/ \E ok \in BOOLEAN, p \in PidOptions : ExecSpawnProgram(s, ok, p)
    \/ \E kind \in {"log", "metric"} : ProgramLine(s, kind)
    \/ \E o \in ProcessOutcomes : ProgramExit(s, o)
    \/ FinishProgram(s)
    \/ GenerateSteps(s)
    \/ \E ok \in BOOLEAN, p \in PidOptions : SpawnStep(s, ok, p)
    \/ StepLine(s)
    \/ \E o \in ProcessOutcomes : StepExit(s, o)
    \/ FinishSteps(s)

\* the requests main.rs makes (lines 73-78), and the whole pipeline
Pipelines == {<<"Configure", "Build", "Install">>, <<"Clean">>, AllStages}

\* the requests of a run: every short request, with repetitions and in any
\* order, and the pipelines
RunRequests == SeqsUpTo(Stage, MaxRunRequestLen) \cup Pipelines

TargetLists == SeqsUpTo(TargetKinds, MaxTargets)

Next ==
    \/ run.pc = "idle" /\ \E tl \in TargetLists : WithTargets(tl)
    \/ run.pc = "idle" /\ \E req \in RunRequests : ExecuteWithDependencies(req)
    \/ LayerBegin
    \/ SkipStage
    \/ SeqReturn
    \/ JoinTask
    \/ ReturnOk
    \/ run.pc = "idle" /\ \E s \in Stage, info \in BOOLEAN : ExecuteStageDirect(s, info)
    \/ DirectReturn
    \/ \E s \in Stage : StageStep(s)

\* the requests made with an executable descriptor: Exec alone, after the
\* stages it depends on, or with stages of its own layer
ExecRequests == SeqsUpTo({"Install", "PostBuild", "Exec"}, MaxRunRequestLen) \cup {<<"Install", "PostBuild", "Exec">>}

\* runs of execute_with_dependencies whose context has an executable
\* descriptor, and the caller's own execute_stage(Exec) with such a context
NextExec ==
    \/ run.pc = "idle" /\ \E tl \in TargetLists : WithTargets(tl)
    \/ run.pc = "idle" /\ \E req \in ExecRequests : ExecuteWithExecutable(req)
    \/ run.pc = "idle" /\ ExecuteStageDirect("Exec", TRUE)
    \/ DirectReturn
    \/ LayerBegin
    \/ SkipStage
    \/ SeqReturn
    \/ JoinTask
    \/ ReturnOk
    \/ \E s \in Stage : StageStep(s)

\* the default graph is built and sorted for a request, by hand or by
\* execute_with_dependencies (lines 275-279)
NextResolve ==
    \/ (built_from.kind = "new" /\ run.pc = "idle") /\ \E req \in GraphRequests : FromStages(req)
    \/ TopologicalSort
    \/ (built_from.kind = "new" /\ run.pc = "idle") /\
           \E req \in GraphRequests : ExecuteWithDependencies(req)

\* the requests made of a runner that is used for several calls
RepeatedRequests == SeqsUpTo({"Build", "Install"}, MaxRunRequestLen)

\* the steps of execute_stage for a stage that is not Exec
BuildStageStep(s) ==
    \/ StageBegin(s)
    \/ GenerateSteps(s)
    \/ \E ok \in BOOLEAN, p \in PidOptions \ {None} : SpawnStep(s, ok, p)
    \/ \E o \in ProcessOutcomes : StepExit(s, o)
    \/ FinishSteps(s)

\* calls of execute_with_dependencies, one after the other, on one runner
NextRepeated ==
    \/ run.pc = "idle" /\ \E tl \in TargetLists : WithTargets(tl)
    \/ run.pc = "idle" /\ \E req \in RepeatedRequests : ExecuteWithDependencies(req)
    \/ run.pc = "done" /\ \E req \in RepeatedRequests : ExecuteAgain(req)
    \/ LayerBegin
    \/ SkipStage
    \/ SeqReturn
    \/ ReturnOk
    \/ \E s \in {"Build", "Install"} : BuildStageStep(s)

\* the steps of an execute_stage call made by execute_with_dependencies when
\* every spawn succeeds: the context has no executable descriptor, a process
\* writes its lines and exits
SpawnedStageStep(s) ==
    \/ StageBegin(s)
    \/ ExecWithoutInfo(s)
    \/ GenerateSteps(s)
    \/ \E p \in PidOptions \ {None} : SpawnStep(s, TRUE, p)
    \/ StepLine(s)
    \/ \E o \in ProcessOutcomes : StepExit(s, o)
    \/ FinishSteps(s)

\* the steps of execute_with_dependencies itself
RunnerStep ==
    \/ LayerBegin
    \/ SkipStage
    \/ SeqReturn
    \/ JoinTask
    \/ ReturnOk

\* the stages of the requests whose runs are followed to their return: a
\* stage with dependents, two stages that run concurrently, and Exec
ReturningStages == {"Build", "Install", "Test", "Exec"}

\* the requests that name no stage twice
ReturningRequests ==
    {req \in SeqsUpTo(ReturningStages, MaxRunRequestLen) :
        \A i, j \in 1..Len(req) : i # j => req[i] # req[j]}

\* runs of execute_with_dependencies whose spawns all succeed and whose
\* event consumers stay open
NextReturning ==
    \/ run.pc = "idle" /\ \E tl \in TargetLists : WithTargets(tl)
    \/ run.pc = "idle" /\ \E req \in ReturningRequests : ExecuteWithDependencies(req)
    \/ RunnerStep
    \/ \E s \in ReturningStages : SpawnedStageStep(s)

\* one execute_stage call, its processes writing output, and the consumers
\* of the two channels going away
NextStage ==
    \/ run.pc = "idle" /\ \E tl \in TargetLists : WithTargets(tl)
    \/ run.pc = "idle" /\ \E s \in Stage, info \in BOOLEAN : ExecuteStageDirect(s, info)
    \/ DirectReturn
    \/ \E s \in Stage : StageStepOutput(s)
    \/ CloseLogReceiver
    \/ CloseStepReceiver

(***************************************************************************)
(* The shared maps at the granularity of their locks: the write block of    *)
(* execute_stage in its two critical sections, and a thread that reads and  *)
(* clears the maps while stage tasks run. The lock of statuses is only ever *)
(* taken last and released in the same step, so it is free between steps.   *)
(***************************************************************************)
\* the stages a caller hands to execute_stages_concurrent
SharedStages == {"Configure", "Exec"}

\* the batches: the stages of a set, each once, in any order
Batches == UNION {Orderings(S) : S \in SUBSET SharedStages \ {{}}}

\* the lock of results is free, or held by the execute_stage call of a stage
\* or by clear
Free == <<"free">>

HeldBy(s) == <<"execute_stage", s>>

HeldByClear == <<"clear">>

\* a faulty write block: the guard of results is dropped after the insert
HeldInWriteBlock_Dropped(s) == Free

\* execute_stage, lines 216-228: the guard of results lives to the end of
\* the block
HeldInWriteBlock(s) == HeldBy(s)

\* StageRunner::get_status, on the statuses map
get_status(st, s) == IF s \in DOMAIN st THEN Some(st[s]) ELSE None

\* StageRunner::get_result, on the results map
get_result(res, s) == IF s \in DOMAIN res THEN Some(res[s]) ELSE None

\* a faulty clear: the statuses are left as they are
clear_statuses_Kept(st) == st

\* StageRunner::clear, lines 346-347: statuses.clear()
clear_statuses(st) == EmptyMap

\* what a call of the reading thread observed
Obs(op, stage, value) == [op |-> op, stage |-> stage, value |-> value]

NoObs == Obs("none", "none", None)

\* the reading thread: in a call of clear or not, and what its last call
\* observed
NoCaller == [pc |-> "idle", last |-> NoObs]

SharedInit ==
    /\ results_lock = Free
    /\ caller = NoCaller

\* a caller's own execute_stages_concurrent(stages, context), lines 240-259:
\* one task is spawned per stage, each with a context made by StageContext::new
ExecuteStagesConcurrent(stages) ==
    /\ run.pc = "idle"
    /\ run' = [run EXCEPT !.call = "execute_stages_concurrent", !.pc = "join",
                          !.request = stages, !.layers = <<stages>>, !.layer_i = 1,
                          !.stage_i = 1, !.layer_results = EmptyMap]
    /\ tasks' = [s \in Stage |-> IF s \in Range(stages) THEN CalledTask(new_ctx(run.info))
                                ELSE tasks[s]]
    /\ UNCHANGED <<targets, results, statuses, gen_calls, spawns>>
    /\ UNCHANGED <<graphVars, stepVars, histVars, sinkVars, lockVars, progVars, syncVars>>

\* execute_stage, lines 162-164: the generator returned no step
GenerateNoSteps(s) ==
    /\ s # "Exec"
    /\ tasks[s].pc = "running"
    /\ generate_steps_for_stage(targets, s) = <<>>
    /\ gen_calls' = [gen_calls EXCEPT ![s] = gen_calls[s] + 1]
    /\ tasks' = [tasks EXCEPT ![s].pc = "no_steps"]
    /\ UNCHANGED <<targets, results, statuses, run, spawns>>
    /\ UNCHANGED <<graphVars, stepVars, histVars, sinkVars, lockVars, progVars, syncVars>>

\* the result an execute_stage call is about to write, if it stands before
\* one of its four write blocks (lines 128-140, 151-156, 169-174, 216-228)
PendingWrite(s) ==
    LET task == tasks[s]
    IN  CASE task.pc = "finish" -> {StepsStageResult(task.exec_results)}
          [] task.pc = "finish_program" -> {ProgramStageResult(task.exec_results[1])}
          [] task.pc = "no_steps" -> {EmptyStepsResult}
          [] task.pc = "running" /\ s = "Exec" /\ ~task.has_info ->
                 {Failed(Text("Exec stage requires executable info"), 0)}
          [] OTHER -> {}

\* a write block, first half: the lock of results is taken and the result
\* inserted; the lock of statuses is still to be taken
LockResults(s) ==
    /\ results_lock = Free
    /\ \E r \in PendingWrite(s) :
           /\ results' = MapPut(results, s, r)
           /\ result_writes' = [result_writes EXCEPT ![s] = @ + 1]
           /\ tasks' = [tasks EXCEPT ![s].pc = "locked", ![s].ret = r]
    /\ results_lock' = HeldInWriteBlock(s)
    /\ UNCHANGED <<targets, statuses, run, gen_calls, spawns, status_log, hard_errors, caller>>
    /\ UNCHANGED <<graphVars, stepVars, sinkVars, progVars, syncVars>>

\* a write block, second half: the lock of statuses is taken, the status
\* inserted, both locks are released and the result is returned
UnlockResults(s) ==
    /\ tasks[s].pc = "locked"
    /\ statuses' = MapPut(statuses, s, StatusOf(tasks[s].ret))
    /\ status_log' = [status_log EXCEPT ![s] = Append(@, StatusOf(tasks[s].ret))]
    /\ tasks' = [tasks EXCEPT ![s].pc = "returned"]
    /\ results_lock' = Free
    /\ UNCHANGED <<targets, results, run, gen_calls, spawns, result_writes, hard_errors, caller>>
    /\ UNCHANGED <<graphVars, stepVars, sinkVars, progVars, syncVars>>

\* the reading thread calls get_status(s): the lock of statuses is free
GetStatus(s) ==
    /\ caller.pc = "idle"
    /\ caller' = [caller EXCEPT !.last = Obs("get_status", s, get_status(statuses, s))]
    /\ UNCHANGED results_lock
    /\ UNCHANGED <<graphVars, stepVars, runVars, histVars, sinkVars, progVars, syncVars>>

\* the reading thread calls get_result(s) and gets the lock of results
GetResult(s) ==
    /\ caller.pc = "idle"
    /\ results_lock = Free
    /\ caller' = [caller EXCEPT !.last = Obs("get_result", s, get_result(results, s))]
    /\ UNCHANGED results_lock
    /\ UNCHANGED <<graphVars, stepVars, runVars, histVars, sinkVars, progVars, syncVars>>

\* clear, lines 344-345: the lock of results is taken and the map cleared;
\* the maps are observed as clear finds them
ClearResults ==
    /\ caller.pc = "idle"
    /\ results_lock = Free
    /\ results_lock' = HeldByClear
    /\ results' = EmptyMap
    /\ caller' = [pc |-> "clearing",
                  last |-> Obs("clear", "none", [results |-> results, statuses |-> statuses])]
    /\ UNCHANGED <<targets, statuses, run, tasks, gen_calls, spawns>>
    /\ UNCHANGED <<graphVars, stepVars, histVars, sinkVars, progVars, syncVars>>

\* clear, lines 346-348: the lock of statuses is taken, the map cleared and
\* both locks released; the maps are observed as clear leaves them
ClearStatuses ==
    /\ caller.pc = "clearing"
    /\ statuses' = clear_statuses(statuses)
    /\ results_lock' = Free
    /\ caller' = [pc |-> "idle",
                  last |-> Obs("cleared", "none",
                               [before |-> caller.last.value,
                                after |-> [results |-> results, statuses |-> statuses']])]
    /\ UNCHANGED <<targets, results, run, tasks, gen_calls, spawns>>
    /\ UNCHANGED <<graphVars, stepVars, histVars, sinkVars, progVars, syncVars>>

\* the steps of execute_stage with its write blocks in two halves
SharedStageStep(s) ==
    \/ StageBegin(s)
    \/ \E ok \in BOOLEAN, p \in PidOptions \ {None} : ExecSpawnProgram(s, ok, p)
    \/ \E o \in ProcessOutcomes : ProgramExit(s, o)
    \/ GenerateNoSteps(s)
    \/ generate_steps_for_stage(targets, s) # <<>> /\ GenerateSteps(s)
    \/ \E ok \in BOOLEAN, p \in PidOptions \ {None} : SpawnStep(s, ok, p)
    \/ \E o \in ProcessOutcomes : StepExit(s, o)
    \/ LockResults(s)
    \/ UnlockResults(s)

\* stage tasks of one call, at the granularity of the locks, and the reading
\* thread
NextShared ==
    \/ run.pc = "idle" /\ \E tl \in TargetLists : WithTargets(tl)
    \/ run.pc = "idle" /\ \E stages \in Batches : ExecuteStagesConcurrent(stages)
    \/ run.pc = "idle" /\ \E s \in SharedStages, info \in BOOLEAN : ExecuteStageDirect(s, info)
    \/ JoinTask
    \/ ReturnOk
    \/ DirectReturn
    \/ \E s \in SharedStages : SharedStageStep(s)
    \/ \E s \in SharedStages : GetStatus(s)
    \/ \E s \in SharedStages : GetResult(s)
    \/ ClearResults
    \/ ClearStatuses

(***************************************************************************)
(* execute_step (executor.rs): the two reader tasks, the channel and the   *)
(* task that calls the output sink.                                         *)
(***************************************************************************)
\* most lines a process writes on one of its streams
MaxStepLines == 2

\* the lines written on a stream, named by stream and position
StreamLines(stream, n) == [i \in 1..n |-> <<stream, i>>]

\* no execute_step call yet
NoStep == [pc |-> "idle",
           stdout_pipe |-> <<>>, stderr_pipe |-> <<>>,
           stdout_task |-> "reading", stderr_task |-> "reading",
           stdout_lines |-> <<>>, stderr_lines |-> <<>>,
           channel |-> <<>>, callback_task |-> "running", sunk |-> <<>>,
           sent |-> <<>>]

StepInit == step_io = NoStep

\* execute_step, lines 210-257: the child is spawned and the three tasks are
\* started; the child writes nout lines on stdout and nerr on stderr
ExecuteStep(nout, nerr) ==
    /\ step_io.pc = "idle"
    /\ step_io' = [step_io EXCEPT !.pc = "wait",
                                  !.stdout_pipe = StreamLines("stdout", nout),
                                  !.stderr_pipe = StreamLines("stderr", nerr)]
    /\ UNCHANGED <<graphVars, runVars, histVars, sinkVars, lockVars, progVars, syncVars>>

\* stdout_task, lines 233-238: a line is read, buffered and sent on
StdoutRead ==
    /\ step_io.pc # "idle"
    /\ step_io.stdout_task = "reading"
    /\ step_io.stdout_pipe # <<>>
    /\ LET line == Head(step_io.stdout_pipe)
       IN  step_io' = [step_io EXCEPT !.stdout_pipe = Tail(@),
                                      !.stdout_lines = Append(@, line),
                                      !.channel = Append(@, line),
                                      !.sent = Append(@, line)]
    /\ UNCHANGED <<graphVars, runVars, histVars, sinkVars, lockVars, progVars, syncVars>>

\* stdout_task, lines 233 and 239: end of stream, the buffer is the task's value
StdoutEof ==
    /\ step_io.pc # "idle"
    /\ step_io.stdout_task = "reading"
    /\ step_io.stdout_pipe = <<>>
    /\ step_io' = [step_io EXCEPT !.stdout_task = "done"]
    /\ UNCHANGED <<graphVars, runVars, histVars, sinkVars, lockVars, progVars, syncVars>>

\* stderr_task, lines 245-249
StderrRead ==
    /\ step_io.pc # "idle"
    /\ step_io.stderr_task = "reading"
    /\ step_io.stderr_pipe # <<>>
    /\ LET line == Head(step_io.stderr_pipe)
       IN  step_io' = [step_io EXCEPT !.stderr_pipe = Tail(@),
                                      !.stderr_lines = Append(@, line),
                                      !.channel = Append(@, line),
                                      !.sent = Append(@, line)]
    /\ UNCHANGED <<graphVars, runVars, histVars, sinkVars, lockVars, progVars, syncVars>>

\* stderr_task, lines 245 and 250
StderrEof ==
    /\ step_io.pc # "idle"
    /\ step_io.stderr_task = "reading"
    /\ step_io.stderr_pipe = <<>>
    /\ step_io' = [step_io EXCEPT !.stderr_task = "done"]
    /\ UNCHANGED <<graphVars, runVars, histVars, sinkVars, lockVars, progVars, syncVars>>

\* a faulty channel: the receiver gets the line sent last
ChannelRecv_Newest(ch) == [line |-> ch[Len(ch)], rest |-> SubSeq(ch, 1, Len(ch) - 1)]

\* rx.recv() on the unbounded channel, line 254: the line sent first and not
\* yet received
ChannelRecv(ch) == [line |-> Head(ch), rest |-> Tail(ch)]

\* callback_task, lines 254-256: a line is received and given to the sink. A
\* task whose abort was asked for while it was being polled goes on until it
\* next yields
CallbackRecv ==
    /\ step_io.callback_task \in {"running", "aborted"}
    /\ step_io.channel # <<>>
    /\ LET got == ChannelRecv(step_io.channel)
       IN  step_io' = [step_io EXCEPT !.channel = got.rest,
                                      !.sunk = Append(@, got.line)]
    /\ UNCHANGED <<graphVars, runVars, histVars, sinkVars, lockVars, progVars, syncVars>>

\* the aborted callback_task is dropped, and its receiver with it
CallbackCancelled ==
    /\ step_io.callback_task = "aborted"
    /\ step_io' = [step_io EXCEPT !.callback_task = "cancelled"]
    /\ UNCHANGED <<graphVars, runVars, histVars, sinkVars, lockVars, progVars, syncVars>>

\* execute_step, lines 259-268: child.wait() returns
ChildExited ==
    /\ step_io.pc = "wait"
    /\ step_io' = [step_io EXCEPT !.pc = "join_stdout"]
    /\ UNCHANGED <<graphVars, runVars, histVars, sinkVars, lockVars, progVars, syncVars>>

\* execute_step, line 270: stdout_task.await
JoinStdout ==
    /\ step_io.pc = "join_stdout"
    /\ step_io.stdout_task = "done"
    /\ step_io' = [step_io EXCEPT !.pc = "join_stderr"]
    /\ UNCHANGED <<graphVars, runVars, histVars, sinkVars, lockVars, progVars, syncVars>>

\* execute_step, line 271: stderr_task.await
JoinStderr ==
    /\ step_io.pc = "join_stderr"
    /\ step_io.stderr_task = "done"
    /\ step_io' = [step_io EXCEPT !.pc = "abort"]
    /\ UNCHANGED <<graphVars, runVars, histVars, sinkVars, lockVars, progVars, syncVars>>

\* execute_step, lines 273-290: callback_task.abort(), then the result with
\* the two buffers is returned
AbortAndReturn ==
    /\ step_io.pc = "abort"
    /\ step_io' = [step_io EXCEPT !.pc = "returned", !.callback_task = "aborted"]
    /\ UNCHANGED <<graphVars, runVars, histVars, sinkVars, lockVars, progVars, syncVars>>

(***************************************************************************)
(* execute_program (executor.rs): the two reader tasks with their entry     *)
(* indices, the metric parser, and the classification of the exit status.   *)
(***************************************************************************)
\* most reads the two reader tasks of one program make together
MaxProgramReads == 3

\* execute_program, line 383: the index of the first stderr entry
StderrIndexOffset == 100000

\* execute_program, line 445: the index of the entry synthesized for a signal
SignalEntryIndex == 999999

\* execute_program, line 482: the index of the entry synthesized for an exit code
ExitCodeEntryIndex == 999998

\* a line of output: whether it starts with "[IGNIS_METRIC] ", and for each
\* of the parts its rest splits into at ':' the number of pieces that part
\* splits into at '='
Line(prefix, parts) == [prefix |-> prefix, parts |-> parts]

\* "hello"
PlainLine == Line(FALSE, <<1>>)

\* "[IGNIS_METRIC] perf:fps=60"
MetricLine == Line(TRUE, <<1, 2>>)

\* "[IGNIS_METRIC] perf:fps=60:gauge"
MetricVizLine == Line(TRUE, <<1, 2, 1>>)

\* "[IGNIS_METRIC] perf:fps"
NoValueLine == Line(TRUE, <<1, 1>>)

\* "perf:fps=60"
NoPrefixLine == Line(FALSE, <<1, 2>>)

ProgramLines == {PlainLine, MetricLine, MetricVizLine, NoValueLine, NoPrefixLine}

\* a faulty parser: the prefix is not asked for
parse_metric_line_AnyPrefix(line) ==
    IF Len(line.parts) >= 2 /\ line.parts[2] = 2
    THEN Some([line |-> line, explicit_visualization |-> None])
    ELSE None

\* MetricParser::parse_metric_line (parser.rs, lines 149-181): the prefix is
\* stripped, the rest split at ':' must have two parts or more and the second
\* split at '=' exactly two pieces; the value is split at ':' once more, which
\* finds nothing, so that no visualization is ever set
parse_metric_line(line) ==
    IF line.prefix /\ Len(line.parts) >= 2 /\ line.parts[2] = 2
    THEN Some([line |-> line, explicit_visualization |-> None])
    ELSE None

\* StepUpdate::Metric(metric)
MetricUpdate(m) == [update |-> "Metric", metric |-> m]

\* LogEntry::new(level, line, line, Other("exec"), index)
ExecEntry(level, line) == [component |-> "exec", level |-> level, text |-> Text(line)]

\* what is sent on log_tx: an entry with its index; count entries that differ
\* in their index only, index .. index + count - 1, are written as one
Indexed(e, index, count) == [entry |-> e, index |-> index, count |-> count]

\* what a reader task does with what it read: the updates it sends on
\* step_tx, the entries it sends on log_tx, and its next index
Sent(updates, entries, index) == [updates |-> updates, entries |-> entries, index |-> index]

\* a faulty stdout reader: the index moves on for a metric line too
StdoutSends_CountsMetrics(line, count, index) ==
    IF parse_metric_line(line).kind = "Some"
    THEN Sent([i \in 1..count |-> MetricUpdate(parse_metric_line(line).value)], <<>>,
              index + count)
    ELSE Sent(<<>>, <<Indexed(ExecEntry("Info", line), index, count)>>, index + count)

\* stdout_task, lines 359-377, run on count equal lines in a row
StdoutSends(line, count, index) ==
    IF parse_metric_line(line).kind = "Some"
    THEN Sent([i \in 1..count |-> MetricUpdate(parse_metric_line(line).value)], <<>>, index)
    ELSE Sent(<<>>, <<Indexed(ExecEntry("Info", line), index, count)>>, index + count)

\* a faulty stderr reader: it looks for metrics as the stdout reader does
StderrSends_ParsesMetrics(line, count, index) ==
    IF parse_metric_line(line).kind = "Some"
    THEN Sent([i \in 1..count |-> MetricUpdate(parse_metric_line(line).value)], <<>>, index)
    ELSE Sent(<<>>, <<Indexed(ExecEntry("Error", line), index, count)>>, index + count)

\* stderr_task, lines 384-396, run on count equal lines in a row
StderrSends(line, count, index) ==
    Sent(<<>>, <<Indexed(ExecEntry("Error", line), index, count)>>, index + count)

\* execute_program, lines 415-488: the entries synthesized for an exit status
SynthesizedEntries(o) ==
    IF o.kind = "signal" THEN <<Indexed(SignalEntry(o.n), SignalEntryIndex, 1)>>
    ELSE IF o.n # 0 THEN <<Indexed(ExitCodeEntry(o.n), ExitCodeEntryIndex, 1)>>
    ELSE <<>>

\* the exit statuses of a program: exit codes, listed and unlisted signals
ProgramOutcomes ==
    [kind : {"exit"}, n : {0, 1, 3}] \cup [kind : {"signal"}, n : {2, 5, 9}]

\* what a reader task is given at once: one line, or on stdout as many plain
\* lines as the stderr index is offset by
StdoutReads == [line : ProgramLines, count : {1}] \cup [line : {PlainLine}, count : {StderrIndexOffset}]

StderrReads == [line : {PlainLine, MetricLine}, count : {1}]

\* a reader task of execute_program: its index, the lines it read, and
\* whether it has seen the end of its stream
NewReader(index) == [index |-> index, read |-> <<>>, done |-> FALSE]

\* no execute_program call yet
NoProgram == [pc |-> "idle", stdout_task |-> NewReader(0),
              stderr_task |-> NewReader(StderrIndexOffset),
              log |-> <<>>, updates |-> <<>>, status |-> None, ret |-> None]

ProgramInit == program = NoProgram

\* the reads made so far by the two reader tasks
ProgramReads == Len(program.stdout_task.read) + Len(program.stderr_task.read)

\* execute_program, lines 336-397: the program is spawned, its process id
\* announced and the two reader tasks started with their first indices; or
\* the spawn fails and the error is returned
ExecuteProgram(ok, p) ==
    /\ program.pc = "idle"
    /\ program' = IF ok
                  THEN [program EXCEPT !.pc = "wait", !.updates = <<ProcessStarted(p)>>]
                  ELSE [program EXCEPT !.pc = "error"]
    /\ UNCHANGED <<graphVars, runVars, histVars, sinkVars, stepVars, lockVars, syncVars>>

\* stdout_task, lines 359-377
ProgramStdoutRead(r) ==
    /\ program.pc \in {"wait", "join"}
    /\ ~program.stdout_task.done
    /\ ProgramReads < MaxProgramReads
    /\ LET sent == StdoutSends(r.line, r.count, program.stdout_task.index)
       IN  program' = [program EXCEPT !.stdout_task.index = sent.index,
                                      !.stdout_task.read = Append(@, r),
                                      !.updates = @ \o sent.updates,
                                      !.log = @ \o sent.entries]
    /\ UNCHANGED <<graphVars, runVars, histVars, sinkVars, stepVars, lockVars, syncVars>>

\* stdout_task, line 359: the end of the stream ends the task
ProgramStdoutEof ==
    /\ program.pc \in {"wait", "join"}
    /\ ~program.stdout_task.done
    /\ program' = [program EXCEPT !.stdout_task.done = TRUE]
    /\ UNCHANGED <<graphVars, runVars, histVars, sinkVars, stepVars, lockVars, syncVars>>

\* stderr_task, lines 384-396
ProgramStderrRead(r) ==
    /\ program.pc \in {"wait", "join"}
    /\ ~program.stderr_task.done
    /\ ProgramReads < MaxProgramReads
    /\ LET sent == StderrSends(r.line, r.count, program.stderr_task.index)
       IN  program' = [program EXCEPT !.stderr_task.index = sent.index,
                                      !.stderr_task.read = Append(@, r),
                                      !.updates = @ \o sent.updates,
                                      !.log = @ \o sent.entries]
    /\ UNCHANGED <<graphVars, runVars, histVars, sinkVars, stepVars, lockVars, syncVars>>

\* stderr_task, line 384: the end of the stream ends the task
ProgramStderrEof ==
    /\ program.pc \in {"wait", "join"}
    /\ ~program.stderr_task.done
    /\ program' = [program EXCEPT !.stderr_task.done = TRUE]
    /\ UNCHANGED <<graphVars, runVars, histVars, sinkVars, stepVars, lockVars, syncVars>>

\* execute_program, lines 399-402: child.wait() returns the exit status
ProgramWaited(o) ==
    /\ program.pc = "wait"
    /\ program' = [program EXCEPT !.pc = "join", !.status = Some(o)]
    /\ UNCHANGED <<graphVars, runVars, histVars, sinkVars, stepVars, lockVars, syncVars>>

\* execute_program, lines 404-509: the two reader tasks are joined, the exit
\* status is classified, its entries are sent on log_tx, Finished and
\* ProcessFinished on step_tx, and the result is returned
ProgramReturn ==
    /\ program.pc = "join"
    /\ program.stdout_task.done
    /\ program.stderr_task.done
    /\ LET o == program.status.value
           result == ProgramResult(o)
       IN  program' = [program EXCEPT
                          !.pc = "returned",
                          !.log = @ \o SynthesizedEntries(o),
                          !.updates = @ \o ProgramEndEvents(result, Some(program.updates[1].pid)),
                          !.ret = Some(result)]
    /\ UNCHANGED <<graphVars, runVars, histVars, sinkVars, stepVars, lockVars, syncVars>>

NextProgram ==
    \/ \E ok \in BOOLEAN, p \in Pids : ExecuteProgram(ok, p)
    \/ (program.pc \in {"wait", "join"} /\ \E r \in StdoutReads : ProgramStdoutRead(r))
    \/ ProgramStdoutEof
    \/ (program.pc \in {"wait", "join"} /\ \E r \in StderrReads : ProgramStderrRead(r))
    \/ ProgramStderrEof
    \/ \E o \in ProgramOutcomes : ProgramWaited(o)
    \/ ProgramReturn

(***************************************************************************)
(* The two locks of a StageRunner (stage_runner.rs): every block that takes *)
(* them, as the threads that run those blocks take and release them.        *)
(***************************************************************************)
\* most blocks the layer loop, and the thread that reads and clears, enter
MaxBlocks == 2

Locks == {"results", "statuses"}

\* two tasks of execute_stage, the layer loop of execute_with_dependencies,
\* and a thread that calls get_status, get_result and clear
StageTasks == {"execute_stage(Install)", "execute_stage(Test)"}

Threads == StageTasks \cup {"execute_with_dependencies", "caller"}

\* a faulty clear: it locks statuses before results
LockOrder_ClearStatusesFirst(block) ==
    CASE block = "Running" -> <<"statuses">>
      [] block = "await" -> <<>>
      [] block = "write" -> <<"results", "statuses">>
      [] block = "previous_failures" -> <<"results">>
      [] block = "skip" -> <<"results", "statuses">>
      [] block = "get_status" -> <<"statuses">>
      [] block = "get_result" -> <<"results">>
      [] block = "clear" -> <<"statuses", "results">>

\* the locks each block takes, in the order of its lock() calls: the Running
\* insert of execute_stage (lines 99-102), an .await of execute_stage or of
\* the layer loop, the write blocks (lines 128-140, 151-156, 169-174,
\* 216-228), the fail-fast check (lines 285-290), one turn of the skip loop
\* (lines 297-301), get_status (334), get_result (339) and clear (344-347)
LockOrder(block) ==
    CASE block = "Running" -> <<"statuses">>
      [] block = "await" -> <<>>
      [] block = "write" -> <<"results", "statuses">>
      [] block = "previous_failures" -> <<"results">>
      [] block = "skip" -> <<"results", "statuses">>
      [] block = "get_status" -> <<"statuses">>
      [] block = "get_result" -> <<"results">>
      [] block = "clear" -> <<"results", "statuses">>

\* execute_stage: the Running insert, the .await of the steps or the program,
\* then the write block
StageTaskBlocks == <<"Running", "await", "write">>

\* the blocks a thread may enter next, having left `done` blocks
NextBlocks(t, done) ==
    IF t \in StageTasks
    THEN (IF done < Len(StageTaskBlocks) THEN {StageTaskBlocks[done + 1]} ELSE {})
    ELSE IF done >= MaxBlocks THEN {}
    ELSE IF t = "execute_with_dependencies" THEN {"previous_failures", "skip", "await"}
    ELSE {"get_status", "get_result", "clear"}

\* a thread outside every block
Outside == [block |-> "none", held |-> 0, done |-> 0]

LockingInit ==
    locking = [holder |-> [l \in Locks |-> "free"], thread |-> [t \in Threads |-> Outside]]

\* the locks a thread holds
HeldLocks(t) == {l \in Locks : locking.holder[l] = t}

\* the lock a thread inside a block calls lock() on next, if any
WantedLock(t) ==
    LET th == locking.thread[t]
    IN  IF th.block # "none" /\ th.held < Len(LockOrder(th.block))
        THEN {LockOrder(th.block)[th.held + 1]}
        ELSE {}

\* a thread comes to a block
EnterBlock(t, block) ==
    /\ locking.thread[t].block = "none"
    /\ block \in NextBlocks(t, locking.thread[t].done)
    /\ locking' = [locking EXCEPT !.thread[t].block = block]
    /\ UNCHANGED <<graphVars, runVars, histVars, sinkVars, stepVars, lockVars, progVars>>

\* Mutex::lock returns: the lock was free and is now held by the thread
AcquireLock(t) ==
    /\ \E l \in WantedLock(t) :
           /\ locking.holder[l] = "free"
           /\ locking' = [locking EXCEPT !.holder[l] = t, !.thread[t].held = @ + 1]
    /\ UNCHANGED <<graphVars, runVars, histVars, sinkVars, stepVars, lockVars, progVars>>

\* the end of the block: its guards are dropped; an .await resumes
LeaveBlock(t) ==
    /\ locking.thread[t].block # "none"
    /\ WantedLock(t) = {}
    /\ locking' = [locking EXCEPT
                      !.holder = [l \in Locks |-> IF locking.holder[l] = t THEN "free"
                                                  ELSE locking.holder[l]],
                      !.thread[t] = [block |-> "none", held |-> 0, done |-> @.done + 1]]
    /\ UNCHANGED <<graphVars, runVars, histVars, sinkVars, stepVars, lockVars, progVars>>

NextLocking ==
    \/ \E t \in Threads :
           locking.thread[t].block = "none" /\
               \E block \in NextBlocks(t, locking.thread[t].done) : EnterBlock(t, block)
    \/ \E t \in Threads : AcquireLock(t)
    \/ \E t \in Threads : LeaveBlock(t)

Init == GraphInit /\ RunInit /\ SharedInit /\ StepInit /\ ProgramInit /\ LockingInit

NextStep ==
    \/ \E nout, nerr \in 0..MaxStepLines : ExecuteStep(nout, nerr)
    \/ StdoutRead
    \/ StdoutEof
    \/ StderrRead
    \/ StderrEof
    \/ CallbackRecv
    \/ CallbackCancelled
    \/ ChildExited
    \/ JoinStdout
    \/ JoinStderr
    \/ AbortAndReturn

\* the StageRunner: runs of execute_with_dependencies and of execute_stage
Spec == Init /\ [][Next]_vars

\* the StageDependencyGraph alone
SpecQuery == Init /\ [][NextQuery]_vars

\* the shared maps and their locks
SpecShared == Init /\ [][NextShared]_vars

SpecGraph == Init /\ [][NextGraph]_vars

\* execute_stage with its channels
SpecStage == Init /\ [][NextStage]_vars

\* one execute_step call
SpecStep == Init /\ [][NextStep]_vars

\* one execute_program call
SpecProgram == Init /\ [][NextProgram]_vars

\* the StageRunner run with an executable descriptor in its context
SpecExec == Init /\ [][NextExec]_vars

\* the default graph of a request, built and sorted
SpecResolve == Init /\ [][NextResolve]_vars

\* a StageRunner used for several calls of execute_with_dependencies
SpecRepeated == Init /\ [][NextRepeated]_vars

\* the threads of a StageRunner taking and releasing its two locks
SpecLocking == Init /\ [][NextLocking]_vars

\* runs whose spawns succeed, under fair scheduling: the caller's future is
\* polled when it can go on, and so is every stage task; a process that was
\* spawned exits
SpecReturning ==
    /\ Init
    /\ [][NextReturning]_vars
    /\ WF_vars(RunnerStep)
    /\ \A s \in ReturningStages : WF_vars(SpawnedStageStep(s))

(***************************************************************************)
(* Properties of the dependency graph, checked under SpecGraph.             *)
(***************************************************************************)
RECURSIVE Flatten(_)
Flatten(layers) == IF layers = <<>> THEN <<>> ELSE Head(layers) \o Flatten(Tail(layers))

\* zero-based index of the layer holding s
LayerIndex(layers, s) == (CHOOSE i \in 1..Len(layers) : s \in Range(layers[i])) - 1

\* the default dependencies of s that are requested too
DepsIn(s, S) == Range(default_dependencies(s)) \cap S

Max(X) == CHOOSE x \in X : \A y \in X : y <= x

\* length of the longest chain of in-S default-dependency edges ending at s
RECURSIVE ChainDepth(_, _)
ChainDepth(s, S) ==
    IF DepsIn(s, S) = {} THEN 0 ELSE 1 + Max({ChainDepth(d, S) : d \in DepsIn(s, S)})

SortedFromStages == built_from.kind = "from_stages" /\ sorted # NoSort

\* C1: from_stages(S) then topological_sort() succeeds with non-empty layers
\* whose concatenation is a permutation of S, every in-S default dependency
\* lying in a strictly earlier layer than its dependent; no layers for empty S.
C1_LayersPartitionAndOrder ==
    SortedFromStages =>
        LET S == Range(built_from.request)
            layers == sorted.layers
        IN  /\ sorted.kind = "Ok"
            /\ \A i \in 1..Len(layers) : layers[i] # <<>>
            /\ Len(Flatten(layers)) = Cardinality(S)
            /\ Range(Flatten(layers)) = S
            /\ \A s \in S : \A d \in DepsIn(s, S) :
                   LayerIndex(layers, d) < LayerIndex(layers, s)
            /\ (S = {} => layers = <<>>)

C1_Witness ==
    /\ SortedFromStages
    /\ built_from.request = <<"Exec", "Build", "Install">>
    /\ sorted.layers = <<<<"Build">>, <<"Install">>, <<"Exec">>>>

\* the edges of a graph and what they reach
Succ(g, X) == UNION {Range(g.adjacency[s]) : s \in X \cap DOMAIN g.adjacency}

RECURSIVE Closure(_, _)
Closure(g, X) == IF Succ(g, X) \subseteq X THEN X ELSE Closure(g, X \cup Succ(g, X))

\* the stages reached from s over one edge or more
Descendants(g, s) == Closure(g, Succ(g, {s}))

OnCycle(g) == {s \in g.stages : s \in Descendants(g, s)}

CycleOrDownstream(g) == OnCycle(g) \cup UNION {Descendants(g, c) : c \in OnCycle(g)}

\* C4: a graph with a cycle (a self-dependency included) sorts to
\* CircularDependency carrying exactly the stages that never reached in-degree
\* zero: those on a cycle or downstream of one, none of them placed in a layer.
C4_CircularReportsStranded ==
    (sorted # NoSort /\ OnCycle(graph) # {}) =>
        /\ sorted.kind = "CircularDependency"
        /\ sorted.remaining = CycleOrDownstream(graph)
        /\ sorted.remaining \cap sorted.placed = {}
        /\ sorted.remaining \cup sorted.placed = graph.stages

\* Build -> Configure -> Build with Install downstream of the cycle
C4_Witness ==
    /\ sorted.kind = "CircularDependency"
    /\ graph.adjacency = [Build |-> <<"Configure", "Install">>, Configure |-> <<"Build">>,
                          Install |-> <<>>]
    /\ sorted.remaining = {"Build", "Configure", "Install"}

\* C5: each stage lands in the layer whose index is the length of the longest
\* chain of in-S default-dependency edges ending at it.
C5_LayerIsChainDepth ==
    SortedFromStages =>
        LET S == Range(built_from.request)
        IN  /\ sorted.kind = "Ok"
            /\ \A s \in S : LayerIndex(sorted.layers, s) = ChainDepth(s, S)
            /\ built_from.request = <<"Configure", "Build", "Install">> =>
                   sorted.layers = <<<<"Configure">>, <<"Build">>, <<"Install">>>>
            /\ built_from.request = <<"Build", "Install", "PostBuild">> =>
                   /\ Len(sorted.layers) = 2
                   /\ sorted.layers[1] = <<"Build">>
                   /\ Range(sorted.layers[2]) = {"Install", "PostBuild"}
            /\ built_from.request =
                   <<"PreValidation", "Configure", "Build", "Install", "PostBuild">> =>
                   /\ Len(sorted.layers) = 4
                   /\ Range(sorted.layers[4]) = {"Install", "PostBuild"}

C5_Witness ==
    /\ SortedFromStages
    /\ built_from.request = <<"PreValidation", "Configure", "Build", "Install", "PostBuild">>
    /\ Len(sorted.layers) = 4
    /\ Range(sorted.layers[4]) = {"Install", "PostBuild"}

\* the edges of a graph, as the set of pairs <<source, dependent>>
Edges(g) == {<<d, s>> \in g.stages \X g.stages : s \in Range(g.adjacency[d])}

\* how many times x occurs in q
Occurrences(q, x) == Cardinality({i \in 1..Len(q) : q[i] = x})

\* C20: from_stages(S) registers exactly the stages of S and has the edge
\* d -> s exactly when both are in S and d is a default dependency of s; an
\* absent dependency gives no edge, no in-degree and no transitive edge, and
\* the sort neither fails nor emits a stage outside S.
C20_OnlyRequestedEdges ==
    built_from.kind = "from_stages" =>
        LET req == built_from.request
            S == Range(req)
        IN  /\ graph.stages = S
            /\ DOMAIN graph.adjacency = S /\ DOMAIN graph.in_degree = S
            /\ Edges(graph) = {<<d, s>> \in S \X S : d \in Range(default_dependencies(s))}
            /\ \A s \in S :
                   graph.in_degree[s] = Occurrences(req, s) * Cardinality(DepsIn(s, S))
            /\ sorted # NoSort =>
                   /\ sorted.kind = "Ok"
                   /\ Range(Flatten(sorted.layers)) = S
                   /\ \A s \in S : DepsIn(s, S) = {} => LayerIndex(sorted.layers, s) = 0
                   /\ req = <<"Configure", "Install">> =>
                          /\ Len(sorted.layers) = 1
                          /\ Range(sorted.layers[1]) = {"Configure", "Install"}

\* Configure and Install without Build: no edge, one layer
C20_Witness ==
    /\ SortedFromStages
    /\ built_from.request = <<"Configure", "Install">>
    /\ Edges(graph) = {}
    /\ graph.in_degree = [Configure |-> 0, Install |-> 0]
    /\ Len(sorted.layers) = 1

\* C21: get_dependencies(s) returns, each once, exactly the stages with an edge
\* into s (nothing for a stage without incoming edge), however often an edge
\* was added; it leaves the graph as it was, and calls for the same stage with
\* no change of the graph in between return the same list.
C21_DependenciesAreThePredecessors ==
    /\ \A i \in 1..Len(dep_queries) :
           LET q == dep_queries[i]
           IN  /\ Range(q.deps) = {d \in graph.stages : <<d, q.stage>> \in Edges(graph)}
               /\ \A d \in Stage : Occurrences(q.deps, d) <= 1
               /\ q.graph_before = graph
               /\ \A j \in 1..Len(dep_queries) :
                      dep_queries[j].stage = q.stage => dep_queries[j].deps = q.deps
\* the edge Configure -> Build was added twice and Build was asked for twice
C21_Witness ==
    /\ "Configure" \in graph.stages
    /\ Occurrences(graph.adjacency["Configure"], "Build") = 2
    /\ Len(dep_queries) = 2
    /\ \A i \in 1..2 : dep_queries[i] = [stage |-> "Build", deps |-> <<"Configure">>,
                                            graph_before |-> graph]

\* a stage with two predecessors was asked for twice
C21_WitnessTwoPredecessors ==
    /\ Len(dep_queries) = 2
    /\ dep_queries[1].stage = dep_queries[2].stage
    /\ Len(dep_queries[1].deps) = 2

\* a stage without incoming edge was asked for
C21_WitnessNoPredecessor ==
    /\ built_from.request = <<"Configure", "Build">>
    /\ Len(dep_queries) = 2
    /\ dep_queries[1] = [stage |-> "Build", deps |-> <<"Configure">>, graph_before |-> graph]
    /\ dep_queries[2] = [stage |-> "Configure", deps |-> <<>>, graph_before |-> graph]

\* C22: add_stage is idempotent: the first add_stage(s) registers s with
\* in-degree 0 and an empty adjacency list and touches no other stage, and
\* add_stage on a registered stage, with or without edges, leaves the stage
\* set, every adjacency list and every in-degree as they were.
C22_AddStageIdempotent ==
    last_call.op = "add_stage" =>
        LET s == last_call.arg[1]
            before == last_call.before
        IN  IF s \in before.stages
            THEN graph = before
            ELSE /\ graph.stages = before.stages \cup {s}
                 /\ graph.in_degree[s] = 0
                 /\ graph.adjacency[s] = <<>>
                 /\ \A x \in before.stages :
                        /\ graph.in_degree[x] = before.in_degree[x]
                        /\ graph.adjacency[x] = before.adjacency[x]

\* add_stage was called on a stage that has edges in and out
C22_Witness ==
    /\ last_call.op = "add_stage"
    /\ last_call.arg[1] \in last_call.before.stages
    /\ last_call.before.in_degree[last_call.arg[1]] > 0
    /\ last_call.before.adjacency[last_call.arg[1]] # <<>>
    /\ graph.in_degree[last_call.arg[1]] > 0

\* add_stage was called on a stage the graph did not have
C22_WitnessFirstAdd ==
    /\ last_call.op = "add_stage"
    /\ last_call.arg[1] \notin last_call.before.stages
    /\ last_call.before.stages # {}

(***************************************************************************)
(* Properties of the stage runner, checked under Spec.                      *)
(***************************************************************************)
\* the stages of the layers of the running execute_with_dependencies
RunStages == Placed(run.layers)

\* one-based index of the layer of the run that holds s
LayerOf(s) == CHOOSE i \in 1..Len(run.layers) : s \in Range(run.layers[i])

HasResult(s) == s \in DOMAIN results

HasStatus(s, st) == s \in DOMAIN statuses /\ statuses[s] = st

ReturnedOk == run.pc = "done" /\ run.ret = "Ok"

\* a stage of the run has a Failed result and s lies in a later layer
AfterFailure(s) ==
    \E f \in RunStages : /\ HasResult(f)
                         /\ IsFailed(results[f])
                         /\ LayerOf(f) < LayerOf(s)

\* C2: once a stage of the run has a Failed result, no stage of a later layer
\* is started, has its steps generated or a process spawned; the only result
\* and status it gets are Skipped("Previous stage failed") and Skipped, and it
\* has them when the run returns, which it then does with Ok.
C2_FailFastSkipsLaterLayers ==
    \A s \in RunStages :
        AfterFailure(s) =>
            /\ gen_calls[s] = 0
            /\ spawns[s] = 0
            /\ tasks[s].pc = "none"
            /\ s \in DOMAIN statuses => statuses[s] = "Skipped"
            /\ HasResult(s) => results[s] = Skipped("Previous stage failed")
            /\ run.pc = "done" =>
                   /\ run.ret = "Ok"
                   /\ HasResult(s)
                   /\ HasStatus(s, "Skipped")
                   /\ s \in DOMAIN run.all_results
                   /\ run.all_results[s] = Skipped("Previous stage failed")

\* Install failed in the concurrent layer of the whole pipeline, Exec skipped
C2_Witness ==
    /\ ReturnedOk
    /\ run.request = AllStages
    /\ HasResult("Install") /\ IsFailed(results["Install"])
    /\ HasResult("Exec") /\ results["Exec"] = Skipped("Previous stage failed")
    /\ HasStatus("Exec", "Skipped")
    /\ gen_calls["Exec"] = 0

TerminalKinds == {"Success", "Failed", "Skipped"}

\* C3: when execute_with_dependencies returns Ok, the returned map and the
\* shared results map hold a terminal result for every requested stage.
C3_EveryStageHasResult ==
    (run.call = "execute_with_dependencies" /\ ReturnedOk) =>
        \A s \in Range(run.request) :
            /\ s \in DOMAIN run.all_results
            /\ run.all_results[s].kind \in TerminalKinds
            /\ HasResult(s)
            /\ results[s].kind \in TerminalKinds

\* the tasks of a layer that are called or spawned and not yet taken back
ActiveIn(layer) == {s \in Range(layer) : tasks[s].pc # "none"}

\* C6: two stages are Running together only if both are concurrency-eligible
\* and in the same layer; a layer with a non-eligible stage, or with a single
\* stage, has at most one stage in execution at a time.
C6_RunningTogetherOnlyIfEligible ==
    /\ \A a, b \in Stage :
           (a # b /\ HasStatus(a, "Running") /\ HasStatus(b, "Running")) =>
               /\ can_run_concurrent(a)
               /\ can_run_concurrent(b)
               /\ {a, b} \subseteq RunStages
               /\ LayerOf(a) = LayerOf(b)
    /\ \A i \in 1..Len(run.layers) :
           LET layer == run.layers[i]
           IN  ((\E j \in 1..Len(layer) : ~can_run_concurrent(layer[j])) \/ Len(layer) = 1) =>
                   Cardinality(ActiveIn(layer)) <= 1

C6_Witness ==
    /\ HasStatus("Install", "Running")
    /\ HasStatus("PostBuild", "Running")
    /\ tasks["Install"].pc = "wait"

\* C7: a stage whose result is Skipped never had a process spawned for it.
C7_SkippedNeverSpawned ==
    \A s \in Stage :
        (HasResult(s) /\ results[s].kind = "Skipped") => spawns[s] = 0

\* both reasons in one finished run, beside a stage that did spawn processes
C7_Witness ==
    /\ ReturnedOk
    /\ \E s \in Stage : HasResult(s) /\ results[s] = Skipped("No steps to execute")
    /\ \E s \in Stage : HasResult(s) /\ results[s] = Skipped("Previous stage failed")
    /\ \E s \in Stage : spawns[s] > 0

\* C8: execute_stage of a non-Exec stage whose generated step list is empty
\* records Skipped("No steps to execute") with status Skipped, returns it, and
\* spawns no process.
C8_EmptyStepsSkipped ==
    \A s \in Stage \ {"Exec"} :
        (gen_calls[s] > 0 /\ generate_steps_for_stage(targets, s) = <<>>) =>
            /\ spawns[s] = 0
            /\ HasResult(s)
            /\ results[s] = Skipped("No steps to execute")
            /\ HasStatus(s, "Skipped")
            /\ tasks[s].pc \in {"none", "returned"}
            /\ tasks[s].pc = "returned" => tasks[s].ret = Skipped("No steps to execute")
            /\ (s \in DOMAIN run.all_results) =>
                   run.all_results[s] = Skipped("No steps to execute")

\* PostBuild, in the fourth layer of the whole pipeline, after stages that ran
C8_Witness ==
    /\ run.request = AllStages
    /\ tasks["PostBuild"].pc = "returned"
    /\ results["PostBuild"] = Skipped("No steps to execute")
    /\ HasResult("Build") /\ results["Build"].kind = "Success"

\* the text a failed step hands to its stage
StepReason(r) ==
    IF r.failure_reason.kind = "Some" THEN r.failure_reason.value ELSE Text("Stage execution failed")

StepsReturned(s) == tasks[s].steps # <<>> /\ tasks[s].pc \in {"finish", "returned"}

\* C10: execute_steps spawns the steps in declared order and stops at the
\* first failing one: k results when step k is the first to fail, only the
\* last one unsuccessful, no later step spawned; one successful result per
\* step when none fails.
C10_StepsStopAtFirstFailure ==
    \A s \in Stage \ {"Exec"} :
        /\ tasks[s].ran = SubSeq(tasks[s].steps, 1, Len(tasks[s].ran))
        /\ Len(tasks[s].exec_results) <= Len(tasks[s].ran)
        /\ StepsReturned(s) =>
               LET er == tasks[s].exec_results
                   k == Len(er)
               IN  /\ k >= 1
                   /\ Len(tasks[s].ran) = k
                   /\ spawns[s] = k
                   /\ \A i \in 1..(k - 1) : er[i].success
                   /\ er[k].success => k = Len(tasks[s].steps)

\* two steps, the first fails: one result, the second step never spawned
C10_Witness ==
    \E s \in Stage :
        /\ tasks[s].pc = "finish"
        /\ Len(tasks[s].steps) = 2
        /\ Len(tasks[s].exec_results) = 1
        /\ ~tasks[s].exec_results[1].success
        /\ tasks[s].ran = <<tasks[s].steps[1]>>

\* C11: execute_stage(Exec) never calls the step generator. With an
\* executable descriptor it spawns the program once and its result is Success
\* or Failed after the program's outcome, steps_executed = 1; without one it
\* records Failed with steps_executed = 0 and status Failed, spawning nothing.
C11_ExecIsSpecialCased ==
    /\ gen_calls["Exec"] = 0
    /\ tasks["Exec"].steps = <<>>
    /\ tasks["Exec"].pc = "returned" =>
           LET t == tasks["Exec"]
           IN  /\ HasResult("Exec") /\ results["Exec"] = t.ret
               /\ IF t.has_info
                  THEN /\ spawns["Exec"] = 1
                       /\ Len(t.exec_results) = 1
                       /\ t.ret.kind = (IF t.exec_results[1].success THEN "Success" ELSE "Failed")
                       /\ t.ret.steps_executed = 1
                       /\ HasStatus("Exec", IF t.exec_results[1].success
                                            THEN "Completed" ELSE "Failed")
                  ELSE /\ spawns["Exec"] = 0
                       /\ t.ret.kind = "Failed"
                       /\ t.ret.steps_executed = 0
                       /\ HasStatus("Exec", "Failed")

\* Exec called with a descriptor, the program killed by a signal
C11_Witness ==
    /\ tasks["Exec"].pc = "returned"
    /\ tasks["Exec"].has_info
    /\ spawns["Exec"] = 1
    /\ tasks["Exec"].ret = Failed(SignalText(9), 1)

\* Exec reached without a descriptor, through execute_with_dependencies
C11_WitnessNoInfo ==
    /\ run.call = "execute_with_dependencies"
    /\ tasks["Exec"].pc = "returned"
    /\ tasks["Exec"].ret.kind = "Failed"
    /\ spawns["Exec"] = 0

\* the ways the status of a stage may have been written during a run
ForwardStatusLogs ==
    {<<>>, <<"Running">>, <<"Skipped">>,
     <<"Running", "Completed">>, <<"Running", "Failed">>, <<"Running", "Skipped">>}

\* C13: the status of a stage only moves forward, absent -> Running ->
\* Completed, Failed or Skipped (or absent -> Skipped for a skipped layer):
\* Completed and Failed are entered from Running only and a terminal status
\* is never written over.
C13_StatusOnlyMovesForward ==
    \A s \in Stage :
        /\ status_log[s] \in ForwardStatusLogs
        /\ (status_log[s] = <<>>) = (s \notin DOMAIN statuses)
        /\ status_log[s] # <<>> => statuses[s] = status_log[s][Len(status_log[s])]

\* the whole pipeline: Build failed after running, Install skipped unseen
C13_Witness ==
    /\ run.request = AllStages
    /\ run.pc = "done"
    /\ status_log["Build"] = <<"Running", "Failed">>
    /\ status_log["Install"] = <<"Skipped">>
    /\ status_log["PreValidation"] = <<"Running", "Skipped">>

\* C14: during a run the shared results entry of a stage is inserted at most
\* once, concurrent layers included.
C14_ResultWrittenOnce ==
    \A s \in Stage :
        /\ result_writes[s] <= 1
        /\ (result_writes[s] = 1) = HasResult(s)

\* the whole pipeline run to its end with a concurrent layer: one insert for
\* every stage
C14_Witness ==
    /\ run.request = AllStages
    /\ ReturnedOk
    /\ \E i \in 1..Len(run.layers) : RunsConcurrently(run.layers[i])
    /\ \A s \in Stage : result_writes[s] = 1

\* C16: the result of execute_step has success exactly when the process
\* exited with code 0; an exit with code N # 0 gives success = false,
\* exit_code = N and failure_reason "Exit code N"; a successful result has no
\* failure_reason.
C16_StepResultMirrorsExit ==
    \A s \in Stage \ {"Exec"} :
        /\ Len(tasks[s].outcomes) = Len(tasks[s].exec_results)
        /\ \A i \in 1..Len(tasks[s].exec_results) :
               LET o == tasks[s].outcomes[i]
                   r == tasks[s].exec_results[i]
               IN  /\ r.success = (o.kind = "exit" /\ o.n = 0)
                   /\ (o.kind = "exit" /\ o.n # 0) =>
                          /\ ~r.success
                          /\ r.exit_code = Some(o.n)
                          /\ r.failure_reason = Some(<<"Exit code", o.n>>)
                   /\ r.success => r.failure_reason = None

\* a second step that exited with code 1 after a first that exited with 0
C16_Witness ==
    \E s \in Stage \ {"Exec"} :
        /\ Len(tasks[s].exec_results) = 2
        /\ tasks[s].outcomes[1] = [kind |-> "exit", n |-> 0]
        /\ tasks[s].outcomes[2] = [kind |-> "exit", n |-> 1]
        /\ ~tasks[s].exec_results[2].success

\* the stages of the layers after the one the run stands at
LaterStages == UNION {Range(run.layers[i]) : i \in (run.layer_i + 1)..Len(run.layers)}

\* C18: a hard error of a task of a concurrent batch (as of a sequential
\* stage) makes execute_with_dependencies return that error and no result
\* map, no later layer being started; a Failed result is handed on as data
\* and makes no error.
C18_HardErrorAbortsRun ==
    (run.call = "execute_with_dependencies" /\ run.pc = "done") =>
        /\ (run.ret = "Err") = (hard_errors # {})
        /\ run.ret = "Err" =>
               /\ hard_errors \subseteq Range(run.layers[run.layer_i])
               /\ \A s \in LaterStages :
                      /\ status_log[s] = <<>>
                      /\ ~HasResult(s)
                      /\ tasks[s].pc = "none"
                      /\ gen_calls[s] = 0 /\ spawns[s] = 0
        /\ run.ret = "Ok" =>
               \A s \in DOMAIN run.all_results : run.all_results[s] = results[s]

\* the whole pipeline: the spawn of Install's step fails in the concurrent
\* layer, Exec's layer is never started
C18_Witness ==
    /\ run.request = AllStages
    /\ run.pc = "done" /\ run.ret = "Err"
    /\ RunsConcurrently(run.layers[run.layer_i])
    /\ "Install" \in hard_errors
    /\ LaterStages # {}

\* Install fails in a concurrent layer and the run returns Ok with it
C18_WitnessFailedIsData ==
    /\ ReturnedOk
    /\ \E i \in 1..Len(run.layers) :
           /\ RunsConcurrently(run.layers[i])
           /\ "Install" \in Range(run.layers[i])
    /\ "Install" \in DOMAIN run.all_results
    /\ IsFailed(run.all_results["Install"])

\* execute_stage was entered for s: its status was set to Running
StageStarted(s) == Contains(status_log[s], "Running")

\* the execute_stage call of s is over and its result is in the shared map
FinishedStage(s) == result_writes[s] >= 1 /\ tasks[s].pc \in {"none", "returned"}

\* C24: in execute_with_dependencies a stage is started (status Running,
\* step generator called, process spawned) only after the result of each of
\* its requested default dependencies was written, and only when every stage
\* of an earlier layer that was started has finished and been collected.
C24_StartsAfterDependencies ==
    run.call = "execute_with_dependencies" =>
        \A i \in 1..Len(run.layers) :
            \A s \in Range(run.layers[i]) :
                (tasks[s].pc # "none" \/ StageStarted(s) \/ gen_calls[s] > 0 \/ spawns[s] > 0) =>
                    /\ \A d \in Range(default_dependencies(s)) \cap Range(run.request) :
                           /\ \E j \in 1..(i - 1) : d \in Range(run.layers[j])
                           /\ HasResult(d)
                           /\ FinishedStage(d)
                    /\ \A j \in 1..(i - 1) :
                           \A a \in Range(run.layers[j]) :
                               StageStarted(a) => /\ FinishedStage(a)
                                                  /\ tasks[a].pc = "none"

\* Build is running with the result of Configure written; the concurrent
\* layer of Install starts after Build has finished
C24_Witness ==
    /\ run.request = AllStages
    /\ status_log["Configure"] = <<"Running", "Completed">>
    /\ status_log["Build"] = <<"Running", "Completed">>
    /\ tasks["Install"].pc = "wait"
    /\ tasks["PostBuild"].pc = "running"
    /\ gen_calls["Install"] = 1

\* C25: in a layer executed sequentially, once a stage of the layer has a
\* Failed result no stage after it in the layer is started: its status is
\* never Running, its step generator is not called, no process is spawned
\* for it.
C25_FailedStopsSequentialLayer ==
    run.call = "execute_with_dependencies" =>
        \A i \in 1..Len(run.layers) :
            LET layer == run.layers[i]
            IN  ~RunsConcurrently(layer) =>
                    \A j, k \in 1..Len(layer) :
                        (j < k /\ HasResult(layer[j]) /\ results[layer[j]].kind = "Failed") =>
                            /\ ~StageStarted(layer[k])
                            /\ ~HasStatus(layer[k], "Running")
                            /\ gen_calls[layer[k]] = 0
                            /\ spawns[layer[k]] = 0
                            /\ tasks[layer[k]].pc = "none"

\* a run is over whose sequential layer of two had its first stage Failed
\* by a process
C25_Witness ==
    /\ run.call = "execute_with_dependencies"
    /\ run.pc = "done"
    /\ \E i \in 1..Len(run.layers) :
           LET layer == run.layers[i]
           IN  /\ ~RunsConcurrently(layer)
               /\ Len(layer) = 2
               /\ HasResult(layer[1])
               /\ results[layer[1]].kind = "Failed"
               /\ spawns[layer[1]] > 0
               /\ generate_steps_for_stage(targets, layer[2]) # <<>>
               /\ status_log[layer[2]] = <<>>

\* the layers execute_stages_concurrent is called for, unless they are skipped
ConcurrentLayers == {i \in 1..Len(run.layers) : RunsConcurrently(run.layers[i])}

\* C27: execute_stages_concurrent starts one task for every stage of the
\* batch, all writing to the shared maps; the map it builds holds the pair of
\* every task joined so far, equal to what the task wrote, and when every
\* task has returned without hard error the map has exactly the stages of
\* the batch. No stage of an executed batch is skipped for a failure: each
\* sibling of a Failed stage is started and gets its own result.
C27_ConcurrentBatchResults ==
    run.call = "execute_with_dependencies" =>
        \A i \in ConcurrentLayers :
            LET layer == run.layers[i]
                batch == Range(layer)
            IN  /\ (i = run.layer_i /\ run.pc = "join") =>
                       /\ \A j \in run.stage_i..Len(layer) : tasks[layer[j]].pc # "none"
                       /\ DOMAIN run.layer_results = {layer[j] : j \in 1..(run.stage_i - 1)}
                       /\ \A s \in DOMAIN run.layer_results :
                              HasResult(s) /\ run.layer_results[s] = results[s]
                /\ (\E s \in batch : StageStarted(s)) =>
                       \A s \in batch :
                           HasResult(s) => /\ StageStarted(s)
                                           /\ results[s] # Skipped("Previous stage failed")
                /\ (i < run.layer_i /\ \E s \in batch : StageStarted(s)) =>
                       /\ \A s \in batch :
                              /\ StageStarted(s)
                              /\ result_writes[s] = 1
                              /\ HasResult(s)
                              /\ s \in DOMAIN run.all_results
                              /\ run.all_results[s] = results[s]
                       /\ (i = run.layer_i - 1 /\ run.pc = "layer") =>
                              /\ DOMAIN run.layer_results = batch
                              /\ \A s \in batch : run.layer_results[s] = results[s]

\* a batch has just returned: Install Failed by its process, its siblings
\* ran to their own results
C27_Witness ==
    /\ run.call = "execute_with_dependencies"
    /\ run.pc = "layer"
    /\ (run.layer_i - 1) \in ConcurrentLayers
    /\ "Install" \in DOMAIN run.layer_results
    /\ IsFailed(run.layer_results["Install"])
    /\ spawns["Install"] > 0
    /\ Cardinality(DOMAIN run.layer_results) >= 2
    /\ \A s \in DOMAIN run.layer_results :
           s # "Install" => /\ run.layer_results[s] = Skipped("No steps to execute")
                            /\ status_log[s] = <<"Running", "Skipped">>

(***************************************************************************)
(* Properties of execute_stage and its channels, checked under SpecStage.   *)
(***************************************************************************)
\* the updates of the given kind among those sent for s
UpdatesOf(s, kind) == SelectSeq(events[s], LAMBDA e : e.update = kind)

\* execute_program has returned a result to execute_stage
ProgramReturned == tasks["Exec"].pc \in {"finish_program", "returned"} /\ tasks["Exec"].has_info

\* C15: whenever execute_program returns a result (exit 0, non-zero exit,
\* signal) exactly one Finished was sent, and, when a process id was
\* observed, exactly one ProcessStarted and one ProcessFinished, both with
\* that id; none of the two when no id was observed.
C15_ProgramEventsOnce ==
    ProgramReturned =>
        LET t == tasks["Exec"]
        IN  /\ UpdatesOf("Exec", "Finished") = <<Finished(t.exec_results[1])>>
            /\ IF t.pid.kind = "Some"
               THEN /\ UpdatesOf("Exec", "ProcessStarted") = <<ProcessStarted(t.pid.value)>>
                    /\ UpdatesOf("Exec", "ProcessFinished") = <<ProcessFinished(t.pid.value)>>
               ELSE /\ UpdatesOf("Exec", "ProcessStarted") = <<>>
                    /\ UpdatesOf("Exec", "ProcessFinished") = <<>>

\* a program with an observed process id, killed by a signal after a metric
C15_Witness ==
    /\ ProgramReturned
    /\ tasks["Exec"].pid = Some(101)
    /\ tasks["Exec"].outcomes = <<[kind |-> "signal", n |-> 9]>>
    /\ Len(events["Exec"]) = 4

\* the text and the synthesized entry that tell how a process ended
ReasonText(o) == IF o.kind = "signal" THEN SignalText(o.n) ELSE ExitCodeText(o.n)

ReasonEntry(o) == IF o.kind = "signal" THEN SignalEntry(o.n) ELSE ExitCodeEntry(o.n)

\* s ended Failed because the last process run for it failed
FailedByProcess(s) ==
    /\ tasks[s].pc = "returned"
    /\ tasks[s].ret.kind = "Failed"
    /\ tasks[s].outcomes # <<>>

\* C17: a stage that ends Failed because a step or the program exited
\* non-zero or was killed by a signal carries the exit-code text or the
\* signal description as its error, and a synthesized entry with that reason
\* was sent on the log channel.
C17_FailureReasonInResultAndLog ==
    \A s \in Stage :
        FailedByProcess(s) =>
            LET o == tasks[s].outcomes[Len(tasks[s].outcomes)]
            IN  /\ tasks[s].ret.error = ReasonText(o)
                /\ \E i \in 1..Len(logs[s]) : logs[s][i] = ReasonEntry(o)

\* the same for the Exec stage alone, which execute_program serves
ProgramFailureReasonInResultAndLog ==
    FailedByProcess("Exec") =>
        LET o == tasks["Exec"].outcomes[1]
        IN  /\ tasks["Exec"].ret.error = ReasonText(o)
            /\ \E i \in 1..Len(logs["Exec"]) : logs["Exec"][i] = ReasonEntry(o)

\* C19: a send on log_tx or step_tx that finds the receiver dropped ends the
\* call (panic or error): none is passed over with the stage going on.
C19_ClosedSinkAborts ==
    \A s \in Stage :
        ignored_sends[s] > 0 => tasks[s].pc \in {"panicked", "error"}

\* the step receiver dropped: no step is spawned and no result written after
StepSinkClosedAborts ==
    \A s \in Stage :
        tasks[s].pc = "panicked" => (~sinks.step_rx \/ ~sinks.log_rx) /\ ~HasResult(s)

(***************************************************************************)
(* Properties of execute_step's output plumbing, checked under SpecStep.    *)
(***************************************************************************)
\* the lines of the buffers execute_step returns
ReturnedLines == step_io.stdout_lines \o step_io.stderr_lines

\* C12: when execute_step returns, the output sink was called exactly once
\* for every line of the returned stdout and stderr buffers, however the two
\* reader tasks, the callback task and the exit of the process interleave.
C12_EveryBufferedLineSunk ==
    step_io.pc = "returned" =>
        /\ \A line \in Range(ReturnedLines) : Occurrences(step_io.sunk, line) = 1
        /\ Range(step_io.sunk) \subseteq Range(ReturnedLines)

\* what does hold: the sink gets buffered lines only, none twice, each
\* stream in its order, and every buffered line is in the sink or still in
\* the channel
SinkGetsBufferedLinesAtMostOnce ==
    /\ \A line \in Range(step_io.sunk) : Occurrences(step_io.sunk, line) = 1
    /\ Range(step_io.sunk) \cup Range(step_io.channel) = Range(ReturnedLines)
    /\ SelectSeq(step_io.sunk, LAMBDA l : l[1] = "stdout") =
           SubSeq(step_io.stdout_lines, 1,
                  Len(SelectSeq(step_io.sunk, LAMBDA l : l[1] = "stdout")))

\* lines were left in the channel when the callback task was dropped
LinesLostAtAbort ==
    /\ step_io.pc = "returned"
    /\ step_io.callback_task = "cancelled"
    /\ step_io.channel # <<>>

\* the lines of one stream among q, in the order they have in q
OfStream(q, stream) == SelectSeq(q, LAMBDA l : l[1] = stream)

\* q is the beginning of r
IsPrefix(q, r) == Len(q) <= Len(r) /\ q = SubSeq(r, 1, Len(q))

\* C30: the sink of execute_step is called by the one callback task, once
\* for a received line, in the order the lines were sent into the channel;
\* the lines of one stream were sent, and so reach the sink, in the order
\* they were read, which is their order in the returned buffer of the
\* stream. Between the lines of stdout and those of stderr no order is fixed.
C30_SinkFollowsSendOrder ==
    /\ IsPrefix(step_io.sunk, step_io.sent)
    /\ step_io.sent = step_io.sunk \o step_io.channel
    /\ OfStream(step_io.sent, "stdout") = step_io.stdout_lines
    /\ OfStream(step_io.sent, "stderr") = step_io.stderr_lines
    /\ IsPrefix(OfStream(step_io.sunk, "stdout"), step_io.stdout_lines)
    /\ IsPrefix(OfStream(step_io.sunk, "stderr"), step_io.stderr_lines)

\* the sink got the first line of stderr between the two lines of stdout,
\* the second line of stderr waiting in the channel
C30_Witness ==
    /\ step_io.sunk = <<<<"stdout", 1>>, <<"stderr", 1>>, <<"stdout", 2>>>>
    /\ step_io.channel = <<<<"stderr", 2>>>>

\* the other order: stderr first
C30_WitnessStderrFirst ==
    /\ step_io.sunk = <<<<"stderr", 1>>, <<"stderr", 2>>, <<"stdout", 1>>, <<"stdout", 2>>>>
    /\ step_io.pc = "returned"

\* execute_with_dependencies has returned, with Ok or with an error
RunReturned(r) == r.call = "execute_with_dependencies" /\ r.pc = "done"

\* C35: when execute_with_dependencies has returned, with Ok or with an error,
\* the run is quiescent: no stage has status Running, no execute_stage call or
\* task of the run is still executing, and from then on nothing is written to
\* the shared results and statuses maps.
C35_QuiescentAfterReturn ==
    [][/\ RunReturned(run') =>
           /\ \A s \in DOMAIN statuses' : statuses'[s] # "Running"
           /\ \A s \in Stage : tasks'[s].pc \in {"none", "returned", "error", "panicked"}
       /\ RunReturned(run) => UNCHANGED <<results, statuses>>]_vars

(***************************************************************************)
(* Properties of results and events, checked under Spec.                    *)
(***************************************************************************)
\* the results announced by the Finished updates of s, in order
FinishedResults(s) ==
    LET fin == UpdatesOf(s, "Finished")
    IN  [i \in 1..Len(fin) |-> fin[i].result]

\* C28: a result is Skipped only with reason "No steps to execute", for a
\* stage whose generator gave no step, or "Previous stage failed", for a
\* stage never started of a layer after a Failed stage; Failed only when a
\* step or the program of the stage did not succeed, or for Exec without
\* descriptor; Success only when every generated step, or the program of
\* Exec, ran and succeeded.
C28_ResultKindsHaveTheirCauses ==
    \A s \in Stage :
        HasResult(s) =>
            LET r == results[s]
                fin == FinishedResults(s)
            IN  /\ r.kind = "Skipped" =>
                       \/ /\ r.reason = "No steps to execute"
                          /\ s # "Exec"
                          /\ gen_calls[s] = 1
                          /\ generate_steps_for_stage(targets, s) = <<>>
                          /\ spawns[s] = 0
                       \/ /\ r.reason = "Previous stage failed"
                          /\ s \in RunStages
                          /\ AfterFailure(s)
                          /\ ~StageStarted(s)
                          /\ gen_calls[s] = 0
                /\ r.kind = "Failed" =>
                       \/ /\ fin # <<>>
                          /\ ~fin[Len(fin)].success
                          /\ spawns[s] = Len(fin)
                       \/ /\ s = "Exec"
                          /\ r = Failed(Text("Exec stage requires executable info"), 0)
                          /\ spawns[s] = 0
                          /\ fin = <<>>
                /\ r.kind = "Success" =>
                       /\ \A i \in 1..Len(fin) : fin[i].success
                       /\ spawns[s] = Len(fin)
                       /\ IF s = "Exec" THEN Len(fin) = 1
                          ELSE /\ gen_calls[s] = 1
                               /\ Len(fin) = Len(generate_steps_for_stage(targets, s))
                               /\ Len(fin) >= 1

\* the whole pipeline has run: a stage without steps, stages that succeeded,
\* one Failed by its second step, and a stage skipped after it
C28_Witness ==
    /\ ReturnedOk
    /\ run.request = AllStages
    /\ \E s \in DOMAIN results : results[s] = Skipped("No steps to execute")
    /\ \E s \in DOMAIN results : results[s] = Success(2)
    /\ \E s \in DOMAIN results : results[s] = Failed(ExitCodeText(1), 2)
    /\ \E s \in DOMAIN results : results[s] = Skipped("Previous stage failed")

\* C29: the updates execute_steps sends for a stage come in groups of four,
\* one group per executed step in the order of the step list: Started of the
\* step, ProcessStarted(pid), ProcessFinished of the same pid, Finished;
\* nothing follows the Finished of a step that failed, and when execute_steps
\* has returned its results there are as many Started and as many Finished
\* as results, the Finished carrying these results in order.
C29_StepEventsWellBracketed ==
    \A s \in Stage \ {"Exec"} :
        LET ev == events[s]
            steps == generate_steps_for_stage(targets, s)
        IN  /\ Len(ev) <= 4 * Len(steps)
            /\ \A i \in 1..Len(ev) :
                   CASE i % 4 = 1 -> ev[i] = Started(steps[(i + 3) \div 4])
                     [] i % 4 = 2 -> ev[i].update = "ProcessStarted"
                     [] i % 4 = 3 -> ev[i] = ProcessFinished(ev[i - 1].pid)
                     [] i % 4 = 0 -> /\ ev[i].update = "Finished"
                                     /\ ~ev[i].result.success => i = Len(ev)
            /\ StepsReturned(s) =>
                   /\ Len(UpdatesOf(s, "Started")) = Len(tasks[s].exec_results)
                   /\ FinishedResults(s) = tasks[s].exec_results
                   /\ Len(ev) = 4 * Len(tasks[s].exec_results)

\* both steps of a stage were executed, the second failed
C29_Witness ==
    \E s \in Stage :
        /\ tasks[s].pc = "returned"
        /\ Len(tasks[s].steps) = 2
        /\ Len(events[s]) = 8
        /\ events[s][4].result.success
        /\ ~events[s][8].result.success

\* the first step of two failed: four updates, none for the second step
C29_WitnessStopped ==
    \E s \in Stage :
        /\ tasks[s].pc = "returned"
        /\ Len(tasks[s].steps) = 2
        /\ Len(events[s]) = 4
        /\ ~events[s][4].result.success

(***************************************************************************)
(* Properties of the shared maps and their locks, checked under SpecShared. *)
(***************************************************************************)
TerminalStatuses == {"Completed", "Failed", "Skipped"}

\* C23: a StageRunner on which nothing was called yet has no status and no
\* result for any stage, and when clear() returns both maps are empty, so
\* that get_status and get_result give none for every stage, whatever the
\* maps held when clear was called and whatever stage tasks did meanwhile.
C23_NewAndClearedReportNothing ==
    /\ run.pc = "idle" =>
           /\ \A s \in Stage : get_status(statuses, s) = None /\ get_result(results, s) = None
           /\ caller.last.op \in {"get_status", "get_result"} => caller.last.value = None
    /\ caller.last.op = "cleared" =>
           \A s \in Stage :
               /\ get_status(caller.last.value.after.statuses, s) = None
               /\ get_result(caller.last.value.after.results, s) = None

\* clear was called with a result recorded and a stage running, and returned
C23_Witness ==
    /\ caller.last.op = "cleared"
    /\ \E s \in DOMAIN caller.last.value.before.results :
           caller.last.value.before.statuses[s] \in TerminalStatuses
    /\ \E s \in DOMAIN caller.last.value.before.statuses :
           caller.last.value.before.statuses[s] = "Running"

\* get_status was called on a runner nothing was called on
C23_WitnessNew ==
    /\ run.pc = "idle"
    /\ caller.last = Obs("get_status", "Configure", None)

C26_WitnessReader ==
    /\ caller.last.op = "get_result"
    /\ caller.last.value # None
    /\ \E s \in SharedStages : tasks[s].pc \in {"wait", "locked"}

(***************************************************************************)
(* Properties of execute_program, checked under SpecProgram.                *)
(***************************************************************************)
\* the entries of the log whose component is "system"
SystemEntries == SelectSeq(program.log, LAMBDA e : e.entry.component = "system")

\* the names execute_program is to give the signals the program may die of
NameOfSignal(n) ==
    CASE n = 2 -> "SIGINT (Interrupt)"
      [] n = 5 -> "Unknown signal"
      [] n = 9 -> "SIGKILL (Killed)"

\* C31: when execute_program has returned, a program terminated by signal n
\* gave success = false, failure_reason "Signal n (<name>)" with the name of the
\* table, "Unknown signal" for a signal not listed, and one synthesized entry
\* of level Error; without a signal, exit code N # 0 gave "Exit code N" and one
\* synthesized entry of level Warning; exit code 0 gave success = true, no
\* failure_reason and no synthesized entry.
C31_TerminationClassified ==
    program.pc = "returned" =>
        LET o == program.status.value
            r == program.ret.value
        IN  IF o.kind = "signal"
            THEN /\ ~r.success
                 /\ r.failure_reason = Some(<<"Signal", o.n, NameOfSignal(o.n)>>)
                 /\ Len(SystemEntries) = 1
                 /\ SystemEntries[1].entry.level = "Error"
            ELSE IF o.n # 0
            THEN /\ ~r.success
                 /\ r.failure_reason = Some(<<"Exit code", o.n>>)
                 /\ Len(SystemEntries) = 1
                 /\ SystemEntries[1].entry.level = "Warning"
            ELSE /\ r.success
                 /\ r.failure_reason = None
                 /\ SystemEntries = <<>>

\* a program killed by a signal the table does not list has returned
C31_Witness ==
    /\ program.pc = "returned"
    /\ program.status = Some([kind |-> "signal", n |-> 5])
    /\ program.ret.value.failure_reason = Some(<<"Signal", 5, "Unknown signal">>)

\* a program that exited with code 3 has returned
C31_WitnessExitCode ==
    /\ program.pc = "returned"
    /\ program.status = Some([kind |-> "exit", n |-> 3])
    /\ Len(SystemEntries) = 1

\* the metric-line grammar "[IGNIS_METRIC] category:key=value[:visualization]":
\* the prefix, a category, and a second part made of a key and a value
MatchesGrammar(line) == line.prefix /\ Len(line.parts) >= 2 /\ line.parts[2] = 2

\* the Metric updates sent on step_tx, in order
MetricUpdates == SelectSeq(program.updates, LAMBDA u : u.update = "Metric")

\* the entries of the given level made of lines of the program, in order
ExecEntries(level) ==
    SelectSeq(program.log, LAMBDA e : e.entry.component = "exec" /\ e.entry.level = level)

\* the stdout reads whose line matches the grammar, and those whose line does not
StdoutMetricReads == SelectSeq(program.stdout_task.read, LAMBDA r : MatchesGrammar(r.line))

StdoutOtherReads == SelectSeq(program.stdout_task.read, LAMBDA r : ~MatchesGrammar(r.line))

C32_WitnessMalformed ==
    /\ program.pc = "returned"
    /\ Contains(program.stdout_task.read, [line |-> NoValueLine, count |-> 1])

\* the entries follow one another with indices that go up by one from first
ConsecutiveFrom(entries, first) ==
    \A i \in 1..Len(entries) :
        entries[i].index = IF i = 1 THEN first
                           ELSE entries[i - 1].index + entries[i - 1].count

\* the two entries, or runs of entries, have no index in common
DisjointIndices(e, f) ==
    \/ e.index + e.count - 1 < f.index
    \/ f.index + f.count - 1 < e.index

\* C33: in one execute_program run the indices of the entries go up by one
\* within each stream, the stdout entries from 0 counting the lines that are no
\* metrics, the stderr entries from the offset 100000, and no stdout entry has
\* the index of a stderr entry or of a synthesized entry (999998, 999999),
\* however many lines the two streams carry.
C33_IndicesNeverCollide ==
    /\ ConsecutiveFrom(ExecEntries("Info"), 0)
    /\ ConsecutiveFrom(ExecEntries("Error"), StderrIndexOffset)
    /\ \A i \in 1..Len(program.log), j \in 1..Len(program.log) :
           /\ program.log[i].entry.component = "exec"
           /\ program.log[i].entry.level = "Info"
           /\ \/ program.log[j].entry.component = "system"
              \/ program.log[j].entry.level = "Error"
           => DisjointIndices(program.log[i], program.log[j])

(***************************************************************************)
(* Properties of runs with an executable descriptor, checked under SpecExec.*)
(***************************************************************************)
\* C34: when execute_with_dependencies is called with a context that carries
\* an executable descriptor and the Exec stage of the request is executed (no
\* earlier stage failed), the execute_stage call of Exec sees the descriptor
\* and runs the program through execute_program: it spawns it once and does
\* not fail with "Exec stage requires executable info".
C34_ExecSeesDescriptor ==
    (run.call = "execute_with_dependencies" /\ run.info) =>
        /\ tasks["Exec"].pc \notin {"none", "called"} => tasks["Exec"].has_info
        /\ tasks["Exec"].pc = "returned" => spawns["Exec"] = 1
        /\ HasResult("Exec") /\ IsFailed(results["Exec"]) =>
               results["Exec"].error # Text("Exec stage requires executable info")

(***************************************************************************)
(* Properties of the two locks, checked under SpecLocking.                  *)
(***************************************************************************)
\* every thread of D waits for a lock that a thread of D holds
Deadlocked(D) ==
    /\ D # {}
    /\ \A t \in D : \E l \in WantedLock(t) : locking.holder[l] \in D

\* C36: the two locks of a StageRunner are always taken in the same order,
\* results before statuses or statuses alone, and none is held across an
\* .await, so that however the stage tasks, the layer loop, get_status,
\* get_result and clear interleave, no set of threads waits for one another.
C36_LocksNeverDeadlock ==
    /\ \A t \in Threads : "statuses" \in HeldLocks(t) => WantedLock(t) = {}
    /\ \A t \in Threads : locking.thread[t].block = "await" => HeldLocks(t) = {}
    /\ \A D \in SUBSET Threads : ~Deadlocked(D)

\* clear holds results and waits for statuses, which a stage task holds for
\* its Running insert, while the layer loop waits for results
C36_Witness ==
    /\ locking.thread["caller"].block = "clear"
    /\ locking.holder["results"] = "caller"
    /\ locking.holder["statuses"] = "execute_stage(Install)"
    /\ WantedLock("execute_with_dependencies") = {"results"}
    /\ locking.thread["execute_stage(Test)"].block = "await"

(***************************************************************************)
(* Properties of a runner used for several calls, checked under             *)
(* SpecRepeated.                                                            *)
(***************************************************************************)
\* C37: the fail-fast check of a call of execute_with_dependencies depends
\* only on the stages executed in that call: a stage the call marked
\* Skipped("Previous stage failed") comes after a stage that Failed in the
\* same call, also when the results map of the runner still holds a Failed
\* result of an earlier call that no clear() removed.
C37_FailFastOnlyThisRun ==
    \A s \in DOMAIN run.all_results :
        run.all_results[s] = Skipped("Previous stage failed") =>
            \E f \in DOMAIN run.all_results : IsFailed(run.all_results[f])

(***************************************************************************)
(* Properties of runs whose spawns succeed, checked under SpecReturning.    *)
(***************************************************************************)
\* C40: when every spawn succeeds, every spawned process exits and the event
\* consumers stay open, under fair scheduling every call of
\* execute_with_dependencies returns Ok, whatever the request and whatever
\* the outcomes of the steps.
C40_EveryCallReturnsOk ==
    (run.call = "execute_with_dependencies") ~> (run.pc = "done" /\ run.ret = "Ok")

\* a call has returned Ok after Build failed and Install was skipped
C40_Witness ==
    /\ run.call = "execute_with_dependencies"
    /\ run.pc = "done"
    /\ run.ret = "Ok"
    /\ get_status(statuses, "Build") = Some("Failed")
    /\ get_status(statuses, "Install") = Some("Skipped")

\* a call has returned Ok after Install and Test ran as concurrent tasks and
\* one of them failed
C40_WitnessConcurrent ==
    /\ run.call = "execute_with_dependencies"
    /\ run.pc = "done"
    /\ run.ret = "Ok"
    /\ run.layers = <<<<"Install", "Test">>>>
    /\ get_status(statuses, "Install") = Some("Failed")
    /\ "Test" \in DOMAIN run.all_results

(***************************************************************************)
(* Properties of a graph built by hand, checked under SpecGraph.            *)
(***************************************************************************)
\* the places of the adjacency lists of g that name stage s
PlacesNaming(g, s) ==
    UNION {{<<d, i>> : i \in {k \in 1..Len(g.adjacency[d]) : g.adjacency[d][k] = s}} :
           d \in DOMAIN g.adjacency}

\* a sequence without its repetitions
RECURSIVE WithoutRepetitions(_)
WithoutRepetitions(q) ==
    IF q = <<>> THEN <<>>
    ELSE LET front == WithoutRepetitions(SubSeq(q, 1, Len(q) - 1))
         IN  IF Contains(front, q[Len(q)]) THEN front ELSE Append(front, q[Len(q)])

\* the graph with every edge entered once
EachEdgeOnce(g) ==
    LET adjacency == [d \in DOMAIN g.adjacency |-> WithoutRepetitions(g.adjacency[d])]
    IN  [adjacency |-> adjacency,
         in_degree |-> [s \in DOMAIN g.in_degree |->
                           Cardinality({d \in DOMAIN adjacency : Contains(adjacency[d], s)})],
         stages |-> g.stages]

\* the layers as sets of stages
LayerSets(layers) == [i \in 1..Len(layers) |-> Range(layers[i])]

\* C39: after any sequence of add_stage and add_dependency calls the keys of
\* the adjacency map and of the in-degree map are the registered stages, and
\* the in-degree of every stage is the number of places of the adjacency
\* lists that name it; so the decrement of topological_sort never goes below
\* zero, and the sort puts the stages in the layers they have in the graph
\* with every edge entered once.
C39_InDegreeCountsAdjacency ==
    /\ DOMAIN graph.adjacency = graph.stages
    /\ DOMAIN graph.in_degree = graph.stages
    /\ \A s \in graph.stages : graph.in_degree[s] = Cardinality(PlacesNaming(graph, s))
    /\ sorted # NoSort =>
           LET once == EachEdgeOnce(graph)
               q0 == CHOOSE q \in Orderings(ZeroInDegree(once)) : TRUE
               sorted_once == topological_sort(once, q0)
           IN  /\ ~sorted.underflow
               /\ sorted.kind = sorted_once.kind
               /\ LayerSets(sorted.layers) = LayerSets(sorted_once.layers)
               /\ sorted.placed = sorted_once.placed

\* the edge from Configure to Build was added three times, Install after
\* Build once, and the graph was sorted
C39_Witness ==
    /\ built_from.kind = "manual"
    /\ {"Configure", "Build"} \subseteq graph.stages
    /\ graph.adjacency["Configure"] = <<"Build", "Build", "Build">>
    /\ graph.in_degree["Build"] = 3
    /\ sorted.kind = "Ok"
    /\ sorted.layers = <<<<"Configure">>, <<"Build">>, <<"Install">>>>

(***************************************************************************)
(* Properties of the default graph of a request, checked under SpecResolve. *)
(***************************************************************************)
\* C38: the default dependencies form an acyclic graph: for every set of
\* stages, requested with or without repetitions, no stage of
\* from_stages(request) reaches itself, topological_sort() does not return
\* CircularDependency, and execute_with_dependencies gets its layers instead
\* of failing on the graph.
C38_DefaultGraphIsAcyclic ==
    /\ built_from.kind = "from_stages" =>
           /\ OnCycle(graph) = {}
           /\ sorted # NoSort => sorted.kind = "Ok"
    /\ run.call = "execute_with_dependencies" =>
           /\ run.pc = "layer"
           /\ Placed(run.layers) = Range(run.request)

\* the request names Build twice, and Install that waits for it, and was sorted
C38_Witness ==
    /\ built_from.kind = "from_stages"
    /\ built_from.request = <<"Build", "Install", "Build">>
    /\ sorted.kind = "Ok"
    /\ sorted.layers = <<<<"Build">>, <<"Install">>>>

\* execute_with_dependencies was called for all eight stages
C38_WitnessRunner ==
    /\ run.request = AllStages
    /\ run.pc = "layer"
    /\ Len(run.layers) = 5

====
